---------------------------- MODULE Spec2Model ----------------------------
(***************************************************************************)
(* Model of the deterministic workload and incident simulation engine of   *)
(* src/src/db/seed.py: seed() builds the dimension catalogs, the incident  *)
(* schedule and the daily drift schedule, generates the request log and    *)
(* the quality scores in batches, and derives deployment_state_current.    *)
(*                                                                         *)
(* Units.  A datetime is an integer number of ticks since midnight of the  *)
(* epoch day (TicksPerSec ticks per second); an RFC3339 string, which      *)
(* to_rfc3339_z cuts to whole seconds, is an integer number of seconds.    *)
(* Rates are integers in percent (0.03 is 3), random() values are integers *)
(* in per mille (0.04 is 40), multipliers are fixed point with MultScale   *)
(* for 1.0.  Python's None is the empty tuple, a present value v is <<v>>. *)
(***************************************************************************)
EXTENDS Integers, Sequences, FiniteSets, TLC

VARIABLES
    cfg,            \* SeedConfig of the running seed() call
    pc,             \* position inside seed() / _seed_all
    rng,            \* state of random.Random(cfg.rng_seed)
    incidents,      \* list built by _make_incidents
    perf_schedule,  \* dict built by _make_daily_perf_schedule
    gen,            \* position of the _generate_requests generator
    batch,          \* in-memory request batch
    q_batch,        \* in-memory quality-score batch
    db,             \* the SQLite store: one list of rows per table
    run,            \* how many times seed() has been called
    prev,           \* the store and configuration left by the previous call
    eff_in,         \* arguments of a direct call of the effect calculator
    eff_out,        \* its result
    agg_in,         \* arguments of a direct call of the snapshot aggregator
    agg_out,        \* its result
    inc_in,         \* arguments of a direct call of the incident builder
    inc_out,        \* its result
    sel_in,         \* arguments of a direct call of the routing selector
    sel_out,        \* its weighted candidates and its choice
    react_in,       \* build_react_graph(max_steps) and the state given to app.invoke
    react_state,    \* the ReactState of the running graph
    react_node,     \* the node the graph runs next
    llm_calls,      \* how many times llm_with_tools.invoke has been called
    exec_rounds,    \* how many times the execute node has run its tools
    qual_in,        \* arguments of a direct pass of generation and quality sampling
    qual_out,       \* the effects used at generation and the quality row
    drift_in,       \* the deployment and the days of a direct run of the drift loop
    drift_out       \* the walk state and the entries appended so far

vars == <<cfg, pc, rng, incidents, perf_schedule, gen, batch, q_batch, db,
          run, prev, eff_in, eff_out, agg_in, agg_out, inc_in, inc_out,
          sel_in, sel_out, react_in, react_state, react_node, llm_calls, exec_rounds,
          qual_in, qual_out,
          drift_in, drift_out>>

pipeline_vars == <<cfg, pc, rng, incidents, perf_schedule, gen, batch, q_batch,
                   db, run, prev>>

eff_vars == <<eff_in, eff_out>>

agg_vars == <<agg_in, agg_out>>

inc_vars == <<inc_in, inc_out>>

sel_vars == <<sel_in, sel_out>>

react_vars == <<react_in, react_state, react_node, llm_calls, exec_rounds>>

qual_vars == <<qual_in, qual_out>>

drift_vars == <<drift_in, drift_out>>

direct_vars == <<eff_vars, agg_vars, inc_vars, sel_vars, react_vars,
                qual_vars,
                drift_vars>>

EffIdle == eff_in = <<>> /\ eff_out = <<>>

AggIdle == agg_in = <<>> /\ agg_out = <<>>

IncIdle == inc_in = <<>> /\ inc_out = <<>>

SelIdle == sel_in = <<>> /\ sel_out = <<>>

QualIdle == qual_in = <<>> /\ qual_out = <<>>

DriftIdle == drift_in = <<>> /\ drift_out = <<>>

ReactIdle ==
    /\ react_in = <<>> /\ react_state = <<>> /\ react_node = "idle"
    /\ llm_calls = 0 /\ exec_rounds = 0

-----------------------------------------------------------------------------
(* Bounds of the model *)

TicksPerSec == 2        \* sub-second resolution of a datetime
MaxDays == 2            \* cfg.days ranges over 0..MaxDays
MaxPerDay == 2          \* cfg.requests_per_user_per_day ranges over 1..MaxPerDay
MaxBatch == 2           \* cfg.insert_batch_size ranges over 1..MaxBatch
NumSeeds == 3           \* cfg.rng_seed ranges over 0..NumSeeds-1
MaxIncidents == 2       \* length of an incident list handed to a direct call

-----------------------------------------------------------------------------
(* Values *)

None == <<>>
Some(v) == <<v>>
IsNone(o) == o = <<>>
Val(o) == o[1]

\* F applied to the value of e, e being evaluated once
With(e, F(_)) == CHOOSE y \in {F(x) : x \in {e}} : TRUE

Min(a, b) == IF a <= b THEN a ELSE b
Max(a, b) == IF a >= b THEN a ELSE b

RECURSIVE SeqSum(_)
SeqSum(s) == IF s = <<>> THEN 0 ELSE Head(s) + SeqSum(Tail(s))

MultScale == 10^5
PerMille == 10^3

\* m * num / den on a fixed-point multiplier (a float product in the source)
MulRatio(m, num, den) == (m * num) \div den

-----------------------------------------------------------------------------
(* Time *)

Second == TicksPerSec
Minute == 60 * Second
Hour == 60 * Minute
Day == 24 * Hour

\* dt.replace(microsecond=0).strftime(...): the string holds whole seconds
to_rfc3339_z(dt) == dt \div TicksPerSec

\* datetime.fromisoformat(ts): the datetime of a string of whole seconds
parse_rfc3339_z(ts) == ts * TicksPerSec

\* timedelta.total_seconds() // 86400
WholeDays(delta) == delta \div Day


-----------------------------------------------------------------------------
(* Dimension catalogs *)

\* The deployment id f"{model_id}/{backend_id}" is the pair <<model, backend>>;
\* dep.split("/", 1) reads its two components back.
DepId(model_id, backend_id) == <<model_id, backend_id>>
ModelOf(dep_id) == dep_id[1]
BackendOf(dep_id) == dep_id[2]

DeploymentDefs ==
    << <<"gpt-4", <<"aws", "k8s", "neocloud">> >>,
       <<"gpt-4-mini", <<"aws", "k8s">> >>,
       <<"gpt-3.5", <<"aws", "k8s">> >>,
       <<"claude-3-opus", <<"aws", "neocloud">> >>,
       <<"claude-3-sonnet", <<"aws", "neocloud">> >>,
       <<"claude-3-haiku", <<"aws", "k8s">> >>,
       <<"llama-70b", <<"k8s", "neocloud">> >>,
       <<"llama-13b", <<"k8s", "neocloud">> >>,
       <<"mistral-large", <<"k8s", "neocloud">> >>,
       <<"mixtral-8x7b", <<"k8s", "neocloud">> >> >>

DisabledDeployment == DepId("llama-70b", "neocloud")

MakeDeployment(model_id, backend_id) ==
    [id |-> DepId(model_id, backend_id),
     model_id |-> model_id,
     backend_id |-> backend_id,
     enabled |-> IF DepId(model_id, backend_id) = DisabledDeployment THEN 0 ELSE 1]

RECURSIVE DeploymentsFrom(_)
DeploymentsFrom(defs) ==
    IF defs = <<>> THEN <<>>
    ELSE LET model_id == Head(defs)[1]
             backends == Head(defs)[2]
         IN  [i \in 1..Len(backends) |-> MakeDeployment(model_id, backends[i])]
             \o DeploymentsFrom(Tail(defs))

make_deployments == DeploymentsFrom(DeploymentDefs)

make_users ==
    [i \in 1..3 |-> [id |-> <<"user_p", i>>, tier_id |-> "premium"]]
    \o [i \in 1..4 |-> [id |-> <<"user_s", i>>, tier_id |-> "standard"]]
    \o [i \in 1..3 |-> [id |-> <<"user_b", i>>, tier_id |-> "budget"]]

SeqRange(s) == {s[i] : i \in 1..Len(s)}

DeploymentIds == {make_deployments[i].id : i \in 1..Len(make_deployments)}

-----------------------------------------------------------------------------
(* Random source: random.Random(seed) is a deterministic stream.  The state *)
(* is advanced by one step per draw; the value drawn is a per-mille point   *)
(* of [0, 1) read from a fixed table of representative points.              *)

RngModulus == 2^16

UnitPoints == <<0, 39, 40, 120, 349, 350, 600, 601, 850, 999>>

\* a stream seeded from the call rather than from the configuration
rng_unseeded(seed) == [s |-> ((seed + run) * 4099 + 977) % RngModulus, n |-> 0]

\* random.Random(seed): the stream state and the number of draws made so far
rng_seeded(seed) == [s |-> (seed * 4099 + 977) % RngModulus, n |-> 0]

\* one draw: the state the stream is left in
rng_next(r) == With(r, LAMBDA x : [s |-> (x.s * 421 + 223) % RngModulus, n |-> x.n + 1])

\* rng.random() in per mille: the value of the draw that left the stream in r
rng_value(r) == UnitPoints[((r.s \div 2^8) % Len(UnitPoints)) + 1]

\* rng.choice(seq): an index of seq
rng_choice_index(r, n) == ((rng_value(r) * n) \div PerMille) + 1

\* rng.gauss(mu, sigma) = mu + sigma * z: the deviation z of the draw, from
\* five sigma below the mean to five sigma above
gauss_z(r) ==
    LET u == rng_value(r)
    IN  IF u < 40 THEN -5 ELSE IF u < 350 THEN -1 ELSE IF u < 601 THEN 0
        ELSE IF u < 999 THEN 1 ELSE 5

\* rng.triangular(low, high, mode): low at 0, mode at its quantile, high at 1,
\* linear in between
triangular(r, low, high, mode) ==
    LET u == rng_value(r)
        c == ((mode - low) * PerMille) \div (high - low)
    IN  IF u <= c
        THEN low + ((mode - low) * u) \div Max(c, 1)
        ELSE mode + ((high - mode) * (u - c)) \div (PerMille - c)

\* int(x) of a quotient: truncation toward zero
TruncDiv(a, b) == IF a >= 0 THEN a \div b ELSE -((-a) \div b)

-----------------------------------------------------------------------------
(* Incident schedule *)

UpperLetters == "ABCDEFGHIJKLMNOPQRSTUVWXYZ"
LowerLetters == "abcdefghijklmnopqrstuvwxyz"

LowerChar(c) ==
    IF \E i \in 1..Len(UpperLetters) : SubSeq(UpperLetters, i, i) = c
    THEN LET i == CHOOSE k \in 1..Len(UpperLetters) : SubSeq(UpperLetters, k, k) = c
         IN  SubSeq(LowerLetters, i, i)
    ELSE c

\* str.lower()
RECURSIVE Lower(_)
Lower(str) ==
    IF Len(str) = 0 THEN ""
    ELSE LowerChar(SubSeq(str, 1, 1)) \o Lower(SubSeq(str, 2, Len(str)))

\* sub in str
Contains(sub, str) ==
    \E i \in 1..(Len(str) - Len(sub) + 1) : SubSeq(str, i, i + Len(sub) - 1) = sub

\* (target_type, target_id, title, day offset, hour, duration in minutes)
Scenarios ==
    << <<"deployment", DepId("gpt-4", "k8s"), "K8s node pressure: elevated latency + timeouts", 4, 10, 150>>,
       <<"backend", "aws", "AWS us-east-1 elevated latency", 6, 16, 240>>,
       <<"model", "gpt-4", "GPT-4 rate limiting spike", 8, 14, 180>>,
       <<"deployment", DepId("llama-70b", "k8s"), "GPU fragmentation: error rate increase", 10, 9, 300>>,
       <<"backend", "neocloud", "Neocloud spot scarcity: slow queue drain", 12, 18, 360>>,
       <<"deployment", DepId("gpt-4", "neocloud"), "Cold starts: TTFT regression", 13, 11, 90>>,
       <<"model", "claude-3-sonnet", "Claude Sonnet intermittent 5xx", 2, 13, 120>> >>

ActiveTargets == <<DepId("gpt-4", "aws"), DepId("gpt-4", "k8s"), DepId("llama-70b", "k8s")>>

ActiveTitle == "Active incident: elevated failures (simulated)"

\* str.lower() of the titles the schedule uses, computed once
KnownTitles == {Scenarios[i][3] : i \in 1..Len(Scenarios)} \cup {ActiveTitle}
LoweredTitles == [t \in KnownTitles |-> Lower(t)]
lower(str) == IF str \in KnownTitles THEN LoweredTitles[str] ELSE Lower(str)

\* (window_start + timedelta(days=day_offset)).replace(hour=hour, minute=0, second=0, microsecond=0)
at(window_start, day_offset, hour) ==
    ((window_start + day_offset * Day) \div Day) * Day + hour * Hour

base_days_of(window_start, window_end) == Max(WholeDays(window_end - window_start), 1)

\* the scripted day offset taken as it is
unclamped_day_off(day_off, base_days) == day_off

\* day_off = min(max(day_off, 0), base_days - 1)
clamped_day_off(day_off, base_days) == Min(Max(day_off, 0), base_days - 1)

ScriptedIncident(idx, window_start, window_end) ==
    LET sc == Scenarios[idx]
        day_off == clamped_day_off(sc[4], base_days_of(window_start, window_end))
        started == at(window_start, day_off, sc[5])
        resolved0 == started + sc[6] * Minute
        resolved == IF resolved0 > window_end THEN window_end - 5 * Minute ELSE resolved0
    IN  [id |-> idx,
         target_type |-> sc[1],
         target_id |-> sc[2],
         title |-> sc[3],
         status |-> "resolved",
         started_at |-> to_rfc3339_z(started),
         resolved_at |-> Some(to_rfc3339_z(resolved))]

ActiveIncident(r, n, window_end) ==
    [id |-> n + 1,
     target_type |-> "deployment",
     target_id |-> ActiveTargets[rng_choice_index(r, Len(ActiveTargets))],
     title |-> ActiveTitle,
     status |-> "active",
     started_at |-> to_rfc3339_z(window_end - 2 * Hour),
     resolved_at |-> None]

\* the scripted incidents alone
make_scripted_only(r, window_start, window_end) ==
    [idx \in 1..Len(Scenarios) |-> ScriptedIncident(idx, window_start, window_end)]

\* _make_incidents; r is the state of the rng after its one draw
make_incidents(r, window_start, window_end) ==
    [idx \in 1..Len(Scenarios) |-> ScriptedIncident(idx, window_start, window_end)]
    \o <<ActiveIncident(r, Len(Scenarios), window_end)>>

-----------------------------------------------------------------------------
(* Incident effect calculator *)

NeutralEffects == [error_add |-> 0, timeout_add |-> 0,
                   ttft_mult |-> MultScale, decode_mult |-> MultScale]

\* not (created_at < started), not (ended is not None and created_at > ended)
IncidentCovers(inc, created_at) ==
    /\ ~(created_at < parse_rfc3339_z(inc.started_at))
    /\ ~(~IsNone(inc.resolved_at) /\ created_at > parse_rfc3339_z(Val(inc.resolved_at)))

ScopeMatches(inc, deployment_id, model_id, backend_id) ==
    \/ (inc.target_type = "deployment" /\ inc.target_id = deployment_id)
    \/ (inc.target_type = "model" /\ inc.target_id = model_id)
    \/ (inc.target_type = "backend" /\ inc.target_id = backend_id)

BaselineEffect(e) ==
    [error_add |-> e.error_add + 3,
     timeout_add |-> e.timeout_add + 2,
     ttft_mult |-> MulRatio(e.ttft_mult, 115, 100),
     decode_mult |-> MulRatio(e.decode_mult, 90, 100)]

ColdStartEffect(e, title) ==
    IF Contains("ttft", title) \/ Contains("cold start", title)
    THEN [e EXCEPT !.ttft_mult = MulRatio(@, 135, 100),
                   !.decode_mult = MulRatio(@, 97, 100)]
    ELSE e

RateLimitEffect(e, title) ==
    IF Contains("rate limit", title)
    THEN [e EXCEPT !.error_add = @ + 5,
                   !.timeout_add = @ + 5,
                   !.ttft_mult = MulRatio(@, 105, 100)]
    ELSE e

\* the row applied once per keyword found instead of once per incident
SpotQueueEffectPerKeyword(e, title) ==
    LET once(x) == [x EXCEPT !.timeout_add = @ + 5,
                             !.ttft_mult = MulRatio(@, 125, 100),
                             !.decode_mult = MulRatio(@, 85, 100)]
        e1 == IF Contains("spot", title) THEN once(e) ELSE e
    IN  IF Contains("queue", title) THEN once(e1) ELSE e1

SpotQueueEffect(e, title) ==
    IF Contains("spot", title) \/ Contains("queue", title)
    THEN [e EXCEPT !.timeout_add = @ + 5,
                   !.ttft_mult = MulRatio(@, 125, 100),
                   !.decode_mult = MulRatio(@, 85, 100)]
    ELSE e

ServerErrorEffect(e, title) ==
    IF Contains("5xx", title)
    THEN [e EXCEPT !.error_add = @ + 7, !.timeout_add = @ + 1]
    ELSE e

\* one iteration of the loop over the incidents
ApplyIncident(e, inc, created_at, deployment_id, model_id, backend_id) ==
    IF ~IncidentCovers(inc, created_at) THEN e
    ELSE IF ~ScopeMatches(inc, deployment_id, model_id, backend_id) THEN e
    ELSE LET title == lower(inc.title)
         IN  ServerErrorEffect(
                 SpotQueueEffect(
                     RateLimitEffect(
                         ColdStartEffect(BaselineEffect(e), title), title), title), title)

RECURSIVE ApplyIncidents(_, _, _, _, _, _)
ApplyIncidents(e, incs, created_at, deployment_id, model_id, backend_id) ==
    IF incs = <<>> THEN e
    ELSE ApplyIncidents(
             ApplyIncident(e, Head(incs), created_at, deployment_id, model_id, backend_id),
             Tail(incs), created_at, deployment_id, model_id, backend_id)

incident_effects_for_request(created_at, deployment_id, model_id, backend_id, incs) ==
    ApplyIncidents(NeutralEffects, incs, created_at, deployment_id, model_id, backend_id)

pressure_of(eff) == eff.error_add + eff.timeout_add


-----------------------------------------------------------------------------
(* Daily performance-drift schedule.  TTFT is in tenths of a millisecond,   *)
(* decode throughput in thousandths of a token per second.                  *)

model_ttft_ms(model_id) ==
    CASE model_id = "gpt-4" -> 160 [] model_id = "gpt-4-mini" -> 120
      [] model_id = "gpt-3.5" -> 110 [] model_id = "claude-3-opus" -> 150
      [] model_id = "claude-3-sonnet" -> 130 [] model_id = "claude-3-haiku" -> 110
      [] model_id = "llama-70b" -> 190 [] model_id = "llama-13b" -> 120
      [] model_id = "mistral-large" -> 160 [] model_id = "mixtral-8x7b" -> 140
      [] OTHER -> 170

model_decode_tps(model_id) ==
    CASE model_id = "gpt-4" -> 55 [] model_id = "gpt-4-mini" -> 75
      [] model_id = "gpt-3.5" -> 85 [] model_id = "claude-3-opus" -> 60
      [] model_id = "claude-3-sonnet" -> 70 [] model_id = "claude-3-haiku" -> 85
      [] model_id = "llama-70b" -> 70 [] model_id = "llama-13b" -> 95
      [] model_id = "mistral-large" -> 65 [] model_id = "mixtral-8x7b" -> 80
      [] OTHER -> 60

\* backend multipliers, in percent
backend_ttft_mult(backend_id) ==
    CASE backend_id = "aws" -> 100 [] backend_id = "k8s" -> 135
      [] backend_id = "neocloud" -> 115 [] OTHER -> 120

backend_decode_mult(backend_id) ==
    CASE backend_id = "aws" -> 100 [] backend_id = "k8s" -> 95
      [] backend_id = "neocloud" -> 90 [] OTHER -> 92

base_perf_for_deployment(deployment_id) ==
    IF deployment_id = DisabledDeployment
    THEN [ttft_ms |-> 99990, decode_tps |-> 100]
    ELSE [ttft_ms |->
              (model_ttft_ms(ModelOf(deployment_id)) * backend_ttft_mult(BackendOf(deployment_id))) \div 10,
          decode_tps |->
              Max(5000, model_decode_tps(ModelOf(deployment_id))
                        * backend_decode_mult(BackendOf(deployment_id)) * 10)]

Clamp(lo, hi, x) == Min(hi, Max(lo, x))

\* x * mult for a fixed-point multiplier mult
Scaled(x, mult) == (x * (mult \div 100)) \div (MultScale \div 100)

\* mult *= 1.0 + rng.gauss(0.0, sigma), sigma in percent
Drift(mult, r, sigma) == MulRatio(mult, 100 + sigma * gauss_z(r), 100)

\* a day whose step change is left as drawn
drift_day_unclamped_step(st0) ==
    With(st0, LAMBDA st :
    With(rng_next(rng_next(rng_next(st.rng))), LAMBDA r3 :
        LET r1 == rng_next(st.rng)
            r2 == rng_next(r1)
            ttft1 == Clamp(70000, 160000, Drift(st.ttft_mult, r1, 4))
            decode1 == Clamp(60000, 160000, Drift(st.decode_mult, r2, 5))
        IN  IF rng_value(r3) < 350
            THEN LET r4 == rng_next(r3)
                     r5 == rng_next(r4)
                 IN  [rng |-> r5,
                      ttft_mult |-> Drift(ttft1, r4, 6),
                      decode_mult |-> Drift(decode1, r5, 7)]
            ELSE [rng |-> r3, ttft_mult |-> ttft1, decode_mult |-> decode1]))

\* one day of the schedule of one deployment: st holds the stream and the two
\* multipliers; the result holds them after the day
drift_day(st0) ==
    With(st0, LAMBDA st :
    With(rng_next(rng_next(rng_next(st.rng))), LAMBDA r3 :
        LET r1 == rng_next(st.rng)
            r2 == rng_next(r1)
            ttft1 == Clamp(70000, 160000, Drift(st.ttft_mult, r1, 4))
            decode1 == Clamp(60000, 160000, Drift(st.decode_mult, r2, 5))
        IN  IF rng_value(r3) < 350
            THEN LET r4 == rng_next(r3)
                     r5 == rng_next(r4)
                 IN  [rng |-> r5,
                      ttft_mult |-> Clamp(60000, 180000, Drift(ttft1, r4, 6)),
                      decode_mult |-> Clamp(50000, 180000, Drift(decode1, r5, 7))]
            ELSE [rng |-> r3, ttft_mult |-> ttft1, decode_mult |-> decode1]))

schedule_entry(dep_id, st, day) ==
    LET b == base_perf_for_deployment(dep_id)
    IN  [ttft_ms |-> Scaled(b.ttft_ms, st.ttft_mult),
         decode_tps |-> Max(100, Scaled(b.decode_tps, st.decode_mult)),
         ttft_mult |-> st.ttft_mult,
         decode_mult |-> st.decode_mult,
         day_index |-> day]

\* the loop over range(days) for one deployment, from day on
RECURSIVE schedule_days(_, _, _, _, _)
schedule_days(dep_id, st, day, days, sched) ==
    IF day >= days THEN [rng |-> st.rng, sched |-> sched]
    ELSE With(drift_day(st), LAMBDA st1 :
         With(Append(sched, schedule_entry(dep_id, st1, day)), LAMBDA sched1 :
             schedule_days(dep_id, st1, day + 1, days, sched1)))

\* the loop over dep_ids, from the first deployment that has no schedule in
\* acc.out yet; acc holds the stream and the schedules in the order of dep_ids
RECURSIVE schedule_deployments(_, _, _)
schedule_deployments(acc0, dep_ids, days) ==
    With(acc0, LAMBDA acc :
        IF Len(acc.out) >= Len(dep_ids) THEN acc
        ELSE With(schedule_days(dep_ids[Len(acc.out) + 1],
                                [rng |-> acc.rng, ttft_mult |-> MultScale,
                                 decode_mult |-> MultScale],
                                0, days, <<>>),
                  LAMBDA one :
                      schedule_deployments([rng |-> one.rng, out |-> Append(acc.out, one.sched)],
                                           dep_ids, days)))

\* a schedule with one entry per day of the configuration, none for no day
make_daily_perf_schedule_per_day(r, deployments, days) ==
    With(schedule_deployments([rng |-> r, out |-> <<>>],
                              [i \in 1..Len(deployments) |-> deployments[i].id],
                              days),
         LAMBDA res :
             [rng |-> res.rng,
              out |-> [d \in {deployments[i].id : i \in 1..Len(deployments)} |->
                          res.out[CHOOSE i \in 1..Len(deployments) : deployments[i].id = d]]])

\* _make_daily_perf_schedule: the schedule, keyed by deployment id, and the
\* stream it leaves
make_daily_perf_schedule(r, deployments, days) ==
    With(schedule_deployments([rng |-> r, out |-> <<>>],
                              [i \in 1..Len(deployments) |-> deployments[i].id],
                              Max(days, 1)),
         LAMBDA res :
             [rng |-> res.rng,
              out |-> [d \in {deployments[i].id : i \in 1..Len(deployments)} |->
                          res.out[CHOOSE i \in 1..Len(deployments) : deployments[i].id = d]]])

-----------------------------------------------------------------------------
(* Deployment routing selector.  Weights are fixed point, MultScale for 1.0. *)

\* sum(w for _, w in items)
RECURSIVE total_weight(_)
total_weight(items) ==
    IF items = <<>> THEN 0 ELSE Head(items)[2] + total_weight(Tail(items))

\* the walk of _weighted_choice: r_milli is the draw, upto the weight passed
RECURSIVE weighted_walk(_, _, _, _, _)
weighted_walk(items, i, upto, r_milli, total) ==
    IF i > Len(items) THEN items[Len(items)][1]
    ELSE IF r_milli * total <= (upto + items[i][2]) * PerMille THEN items[i][1]
    ELSE weighted_walk(items, i + 1, upto + items[i][2], r_milli, total)

\* _weighted_choice; r is the stream after its draw
weighted_choice(r, items0) ==
    With(items0, LAMBDA items :
        With(total_weight(items), LAMBDA total :
            IF total <= 0 THEN items[1][1]
            ELSE weighted_walk(items, 1, 0, rng_value(r), total)))

base_rank_weights(tier_id) ==
    IF tier_id = "premium" THEN <<140000, 70000, 35000>>
    ELSE IF tier_id = "budget" THEN <<150000, 55000, 25000>>
    ELSE <<100000, 60000, 30000>>

rank_weight(tier_id, i) ==
    base_rank_weights(tier_id)[Min(i, Len(base_rank_weights(tier_id)))]

\* the weight of the incident-aware path without its floor
unfloored_candidate_weight(tier_id, i, dep, created_at, incs, enabled_ids) ==
    With(incident_effects_for_request(created_at, dep, ModelOf(dep), BackendOf(dep), incs),
         LAMBDA eff :
             LET w0 == rank_weight(tier_id, i)
                 w1 == MulRatio(w0, Max(15, 100 - 3 * pressure_of(eff)), 100)
                 w2 == IF dep \notin enabled_ids THEN MulRatio(w1, 8, 100) ELSE w1
                 w3 == IF eff.ttft_mult >= 135000 THEN MulRatio(w2, 75, 100) ELSE w2
             IN  IF eff.decode_mult <= 85000 THEN MulRatio(w3, 75, 100) ELSE w3)

\* the weight of the candidate of rank i in the incident-aware path
candidate_weight(tier_id, i, dep, created_at, incs, enabled_ids) ==
    With(incident_effects_for_request(created_at, dep, ModelOf(dep), BackendOf(dep), incs),
         LAMBDA eff :
             LET w0 == rank_weight(tier_id, i)
                 w1 == MulRatio(w0, Max(15, 100 - 3 * pressure_of(eff)), 100)
                 w2 == IF dep \notin enabled_ids THEN MulRatio(w1, 8, 100) ELSE w1
                 w3 == IF eff.ttft_mult >= 135000 THEN MulRatio(w2, 75, 100) ELSE w2
                 w4 == IF eff.decode_mult <= 85000 THEN MulRatio(w3, 75, 100) ELSE w3
             IN  Max(1000, w4))

\* rng.random() < 0.04: the incident-ignoring path
ignores_incidents(r) == rng_value(r) < 40

\* the (deployment, weight) list handed to _weighted_choice; r1 is the stream
\* after the draw that decides between the two paths
selector_items(r1, tier_id, created_at, preferred, incs, enabled_ids) ==
    IF ignores_incidents(r1)
    THEN [i \in 1..Len(preferred) |-> <<preferred[i], rank_weight(tier_id, i)>>]
    ELSE [i \in 1..Len(preferred) |->
             <<preferred[i], candidate_weight(tier_id, i, preferred[i], created_at,
                                              incs, enabled_ids)>>]

\* a choice among the last deployments of the catalog, whatever the tier prefers
choose_from_catalog(r, tier_id, created_at, preferred, incs, enabled_ids) ==
    LET r1 == rng_next(r)
        r2 == rng_next(r1)
        n == Len(make_deployments)
    IN  weighted_choice(r2, selector_items(r1, tier_id, created_at,
                                           [i \in 1..3 |-> make_deployments[n - 3 + i].id],
                                           incs, enabled_ids))

\* _choose_deployment_for_request: r is the stream before the call, which draws twice
choose_deployment_for_request(r, tier_id, created_at, preferred, incs, enabled_ids) ==
    LET r1 == rng_next(r)
        r2 == rng_next(r1)
    IN  weighted_choice(r2, selector_items(r1, tier_id, created_at, preferred, incs,
                                           enabled_ids))

-----------------------------------------------------------------------------
(* Request event generator *)

TaskTypes == <<"summarization", "coding", "chat", "reasoning">>

tier_preferred_deployments(tier_id) ==
    IF tier_id = "premium"
    THEN <<DepId("gpt-4", "aws"), DepId("claude-3-opus", "aws"), DepId("gpt-4", "neocloud")>>
    ELSE IF tier_id = "standard"
    THEN <<DepId("gpt-4-mini", "aws"), DepId("claude-3-sonnet", "aws"), DepId("mixtral-8x7b", "k8s")>>
    ELSE <<DepId("llama-13b", "k8s"), DepId("mixtral-8x7b", "k8s"), DepId("gpt-3.5", "k8s"),
           DepId("claude-3-haiku", "k8s")>>

\* model prices in micro-dollars per 1k tokens, backend multipliers in percent
model_price(model_id) ==
    CASE model_id = "gpt-4" -> 30000 [] model_id = "gpt-4-mini" -> 10000
      [] model_id = "gpt-3.5" -> 4000 [] model_id = "claude-3-opus" -> 25000
      [] model_id = "claude-3-sonnet" -> 12000 [] model_id = "claude-3-haiku" -> 6000
      [] model_id = "llama-70b" -> 8000 [] model_id = "llama-13b" -> 3000
      [] model_id = "mistral-large" -> 7000 [] model_id = "mixtral-8x7b" -> 5000
      [] OTHER -> 8000

backend_price_mult(backend_id) ==
    CASE backend_id = "aws" -> 100 [] backend_id = "k8s" -> 75
      [] backend_id = "neocloud" -> 65 [] OTHER -> 80

price_per_1k_tokens(deployment_id) ==
    (model_price(ModelOf(deployment_id)) * backend_price_mult(BackendOf(deployment_id))) \div 100

router_version_for(ts, window_start, window_end) ==
    IF ts < window_start + (window_end - window_start) \div 2 THEN "v1.1.0" ELSE "v1.2.0"

enabled_ids_of(deployments) ==
    {deployments[i].id : i \in {k \in 1..Len(deployments) : deployments[k].enabled = 1}}

dep_ids_of(deployments) == {deployments[i].id : i \in 1..Len(deployments)}

\* the list of a tier with a retired deployment left in, unfiltered
stale_preferred(tier_id, deployments) ==
    tier_preferred_deployments(tier_id) \o <<DepId("gpt-4", "azure")>>

\* the preferences of a tier that exist in the deployment set
preferred_for(tier_id, deployments) ==
    SelectSeq(tier_preferred_deployments(tier_id), LAMBDA d : d \in dep_ids_of(deployments))

\* the per-day count taken for the count of the whole window
per_user_total_per_day(requests_per_user_per_day, total_days) == requests_per_user_per_day

per_user_total_of(requests_per_user_per_day, total_days) ==
    requests_per_user_per_day * total_days

total_days_of(window_start, window_end) == Max(WholeDays(window_end - window_start), 1)

\* a timestamp placed by the jitter alone, anywhere in the window
created_at_anywhere(r, j, per_user_total, window_start, window_end) ==
    window_start + ((window_end - window_start) * rng_value(r)) \div PerMille

\* created_at_dt = window_start + (window_end - window_start) * frac with
\* frac = (j + rng.random()) / max(per_user_total, 1)
created_at_of(r, j, per_user_total, window_start, window_end) ==
    LET slice == (window_end - window_start) \div Max(per_user_total, 1)
    IN  window_start + slice * j + (slice * rng_value(r)) \div PerMille

day_index_of(created_at_dt, window_start, total_days) ==
    Clamp(0, total_days - 1, WholeDays(created_at_dt - window_start))

base_error_of(deployment_id) == IF deployment_id = DepId("gpt-4", "k8s") THEN 5 ELSE 2
base_timeout_of(deployment_id) == IF deployment_id = DepId("gpt-4", "k8s") THEN 3 ELSE 1

\* min(0.95, max(0.0, base + float(eff[...]))), in percent
effective_rate(base, add) == Clamp(0, 95, base + add)

\* a classification that tests the error band first
status_of_roll_error_first(roll, timeout_p, error_p) ==
    IF roll < error_p * 10 THEN "error"
    ELSE IF roll < (timeout_p + error_p) * 10 THEN "timeout"
    ELSE "success"

\* the status of a roll (per mille) against the two probabilities (percent)
status_of_roll(roll, timeout_p, error_p) ==
    IF roll < timeout_p * 10 THEN "timeout"
    ELSE IF roll < (timeout_p + error_p) * 10 THEN "error"
    ELSE "success"

\* str(j): the decimal digits of j, the most significant first
RECURSIVE digits_of(_)
digits_of(j) == IF j < 10 THEN <<j>> ELSE Append(digits_of(j \div 10), j % 10)

\* f"{j:0{width}d}": the digits of j behind the zeros that fill the width
zero_padded(j, width) ==
    LET d == digits_of(j)
    IN  IF Len(d) >= width THEN d ELSE [i \in 1..(width - Len(d)) |-> 0] \o d

\* an id built from the tier part of the user id alone
request_id_per_tier(user_id, j) == <<"req", <<user_id[1], 0>>, zero_padded(j, 6)>>

\* f"req_{user['id']}_{j:06d}"
request_id(user_id, j) == <<"req", user_id, zero_padded(j, 6)>>

\* perf_schedule.get(deployment_id, [{"ttft_ms": 200.0, "decode_tps": 45.0}])
schedule_get(schedule, deployment_id) ==
    IF deployment_id \in DOMAIN schedule THEN schedule[deployment_id]
    ELSE <<[ttft_ms |-> 2000, decode_tps |-> 45000]>>

\* One pass of the body of the inner loop of _generate_requests, up to its
\* yield: the request, the stream it leaves, and the locals of the frame
\* (path tells whether the selector ignored the incidents).
\* the TTFT draw taken as it is
ttft_ms_unclamped(ttft_base, z) == TruncDiv(ttft_base * (100 + 25 * z), 1000)

\* ttft_ms = max(20, int(rng.gauss(ttft_base, ttft_base * 0.25)))
ttft_ms_of(ttft_base, z) == Max(20, TruncDiv(ttft_base * (100 + 25 * z), 1000))

generate_request(r, user, j, deployments, window_start, window_end, per_day, incs, schedule) ==
    LET total_days == total_days_of(window_start, window_end)
        per_user_total == per_user_total_of(per_day, total_days)
        preferred == preferred_for(user.tier_id, deployments)
    IN
    With(rng_next(r), LAMBDA r1 :
    With(created_at_of(r1, j, per_user_total, window_start, window_end), LAMBDA created_at_dt :
    With(choose_deployment_for_request(r1, user.tier_id, created_at_dt, preferred, incs,
                                       enabled_ids_of(deployments)), LAMBDA deployment_id :
    With(incident_effects_for_request(created_at_dt, deployment_id, ModelOf(deployment_id),
                                      BackendOf(deployment_id), incs), LAMBDA eff :
    With(rng_next(rng_next(rng_next(rng_next(rng_next(rng_next(r1)))))), LAMBDA r7 :
    With(rng_next(rng_next(rng_next(r7))), LAMBDA r10 :
        LET day_index == day_index_of(created_at_dt, window_start, total_days)
            r4 == rng_next(rng_next(rng_next(r1)))
            input_tokens == triangular(r4, 200, 3000, 1200)
            r5 == rng_next(r4)
            output_tokens == triangular(r5, 50, 1200, 300)
            r6 == rng_next(r5)
            task_type == TaskTypes[rng_choice_index(r6, Len(TaskTypes))]
            error_p == effective_rate(base_error_of(deployment_id), eff.error_add)
            timeout_p == effective_rate(base_timeout_of(deployment_id), eff.timeout_add)
            status == status_of_roll(rng_value(r7), timeout_p, error_p)
            daily == schedule_get(schedule, deployment_id)[day_index + 1]
            ttft_base == Scaled(daily.ttft_ms, eff.ttft_mult)
            decode_base == Scaled(daily.decode_tps, eff.decode_mult)
            r8 == rng_next(r7)
            ttft_ms == ttft_ms_of(ttft_base, gauss_z(r8))
            r9 == rng_next(r8)
            decode_tps == Max(5000, TruncDiv(decode_base * (100 + 20 * gauss_z(r9)), 100))
            latency_ms ==
                IF status = "timeout" THEN triangular(r10, 1200, 4000, 2200)
                ELSE Max(30, ttft_ms + (output_tokens * 10^6) \div decode_tps
                             + 60 * gauss_z(r10))
            in_experiment_window == created_at_dt >= window_end - 3 * Day
            r11 == IF in_experiment_window THEN rng_next(r10) ELSE r10
            experiment_id ==
                IF in_experiment_window /\ rng_value(r11) < 250
                THEN Some("exp_latency_tuning") ELSE None
        IN  [rng |-> r11,
             req |-> [id |-> request_id(user.id, j),
                      created_at |-> to_rfc3339_z(created_at_dt),
                      user_id |-> user.id,
                      deployment_id |-> deployment_id,
                      model_id |-> ModelOf(deployment_id),
                      backend_id |-> BackendOf(deployment_id),
                      task_type |-> task_type,
                      input_tokens |-> input_tokens,
                      output_tokens |-> output_tokens,
                      latency_ms |-> latency_ms,
                      ttft_ms |-> ttft_ms,
                      decode_toks_per_sec |-> decode_tps,
                      cost_usd |-> ((input_tokens + output_tokens)
                                    * price_per_1k_tokens(deployment_id)) \div 1000,
                      status |-> status,
                      error_code |-> None,
                      router_version |-> router_version_for(created_at_dt, window_start, window_end),
                      experiment_id |-> experiment_id,
                      routing_reason |-> [tier_id |-> user.tier_id,
                                          options |-> <<preferred[1], preferred[Len(preferred)]>>,
                                          decision |-> deployment_id]],
             frame |-> [created_at_dt |-> created_at_dt,
                        day_index |-> day_index,
                        preferred |-> preferred,
                        eff |-> eff,
                        path |-> IF ignores_incidents(rng_next(r1)) THEN "ignore"
                                 ELSE "aware"]]))))))

-----------------------------------------------------------------------------
(* Quality-score sampler *)

\* the evaluation time left where the delay puts it, however late
make_quality_row_unclipped(r, req, base_now, incs) ==
    With(rng_next(r), LAMBDA r1 :
    With(parse_rfc3339_z(req.created_at), LAMBDA created :
        LET evaluated_at == created + triangular(r1, 1, 8, 3) * Hour
            eff == incident_effects_for_request(created, req.deployment_id, req.model_id,
                                                req.backend_id, incs)
            in_incident == pressure_of(eff) > 0
        IN  With(rng_next(r1), LAMBDA r3 :
                [rng |-> r3,
                 in_incident |-> in_incident,
                 q |-> [request_id |-> req.id,
                        eval_type |-> "offline",
                        score |-> IF in_incident THEN triangular(r3, 3500, 7500, 5500)
                                  ELSE triangular(r3, 7000, 9800, 8800),
                        evaluated_at |-> to_rfc3339_z(evaluated_at)]])))

\* _make_quality_row: the row and the stream it leaves
make_quality_row(r, req, base_now, incs) ==
    With(rng_next(r), LAMBDA r1 :
    With(parse_rfc3339_z(req.created_at), LAMBDA created :
        LET evaluated0 == created + triangular(r1, 1, 8, 3) * Hour
            late == evaluated0 > base_now + Hour
            r2 == IF late THEN rng_next(r1) ELSE r1
            evaluated_at == IF late THEN base_now + triangular(r2, 5, 55, 20) * Minute
                            ELSE evaluated0
            eff == incident_effects_for_request(created, req.deployment_id, req.model_id,
                                                req.backend_id, incs)
            in_incident == pressure_of(eff) > 0
        IN  With(rng_next(r2), LAMBDA r3 :
                [rng |-> r3,
                 in_incident |-> in_incident,
                 q |-> [request_id |-> req.id,
                        eval_type |-> "offline",
                        score |-> IF in_incident THEN triangular(r3, 3500, 7500, 5500)
                                  ELSE triangular(r3, 7000, 9800, 8800),
                        evaluated_at |-> to_rfc3339_z(evaluated_at)]])))

\* rng.random() <= cfg.quality_coverage, the coverage in per mille
sampled_for_quality(r, quality_coverage) == rng_value(r) <= quality_coverage

-----------------------------------------------------------------------------
(* Snapshot aggregator *)

\* _percentile_int / _percentile_float: rank selection, q in percent
\* the index taken in the list as it was collected, without sorting it
percentile_unsorted(vals, q) ==
    IF vals = <<>> THEN None
    ELSE IF Len(vals) = 1 THEN Some(vals[1])
    ELSE Some(vals[((Min(100, Max(0, q)) * (Len(vals) - 1)) \div 100) + 1])

\* _percentile_int, _percentile_float: q in percent
percentile(vals, q) ==
    IF vals = <<>> THEN None
    ELSE LET vals_sorted == SortSeq(vals, LAMBDA a, b : a < b)
         IN  IF Len(vals_sorted) = 1 THEN Some(vals_sorted[1])
             ELSE LET idx == (Min(100, Max(0, q)) * (Len(vals_sorted) - 1)) \div 100
                  IN  Some(vals_sorted[idx + 1])

\* the lower edge of the window left out of the query
window_rows_unbounded(requests, window_end, window_sec) ==
    SelectSeq(requests, LAMBDA r : r.created_at <= to_rfc3339_z(window_end))

\* SELECT ... FROM requests WHERE created_at >= start_s AND created_at <= end_s
window_rows(requests, window_end, window_sec) ==
    LET end_s == to_rfc3339_z(window_end)
        start_s == to_rfc3339_z(window_end - Max(window_sec, 1) * Second)
    IN  SelectSeq(requests, LAMBDA r : r.created_at >= start_s /\ r.created_at <= end_s)

\* only the deployments that have a row in the window
agg_keys_seen(deployments, dep_rows) ==
    SelectSeq([i \in 1..Len(deployments) |-> deployments[i].id],
              LAMBDA d : \E k \in 1..Len(dep_rows) : dep_rows[k].deployment_id = d)

\* the keys of agg: one entry per deployment of the list, in its order
agg_keys(deployments, dep_rows) ==
    [i \in 1..Len(deployments) |-> deployments[i].id]

\* the accumulators of one deployment after the loop over dep_rows
aggregate(dep_id, dep_rows) ==
    LET mine == SelectSeq(dep_rows, LAMBDA r : r.deployment_id = dep_id)
        ok == SelectSeq(mine, LAMBDA r : r.status = "success")
    IN  [total |-> Len(mine),
         errors |-> Len(SelectSeq(mine, LAMBDA r : r.status = "error")),
         timeouts |-> Len(SelectSeq(mine, LAMBDA r : r.status = "timeout")),
         lat |-> [i \in 1..Len(ok) |-> ok[i].latency_ms],
         ttft |-> [i \in 1..Len(ok) |-> ok[i].ttft_ms],
         dec |-> [i \in 1..Len(ok) |-> ok[i].decode_toks_per_sec]]

\* timeout_rate > 0.05 or error_rate > 0.07, the rates being counts over total
rates_exceeded(total, errors, timeouts) ==
    total > 0 /\ (timeouts * 100 > 5 * total \/ errors * 100 > 7 * total)

\* the pressure threshold read as exclusive
classify_status_exclusive(total, errors, timeouts, active_pressure) ==
    IF active_pressure > 15 THEN "down"
    ELSE IF total >= 30 /\ rates_exceeded(total, errors, timeouts) THEN "degraded"
    ELSE "healthy"

classify_status(total, errors, timeouts, active_pressure) ==
    IF active_pressure >= 15 THEN "down"
    ELSE IF total >= 30 /\ rates_exceeded(total, errors, timeouts) THEN "degraded"
    ELSE "healthy"

base_queue_of(backend_id) ==
    CASE backend_id = "aws" -> 12 [] backend_id = "k8s" -> 40
      [] backend_id = "neocloud" -> 25 [] OTHER -> 20

base_rl_of(backend_id) ==
    CASE backend_id = "aws" -> 900 [] backend_id = "k8s" -> 2000
      [] backend_id = "neocloud" -> 1200 [] OTHER -> 1000

\* count * 2^k, the first doubling of count that reaches total
RECURSIVE scaled_dividend(_, _)
scaled_dividend(count, total) ==
    IF count >= total THEN count ELSE scaled_dividend(2 * count, total)

\* long division: the remainder and the last quotient bit after `bits` more
\* binary digits of the quotient
RECURSIVE quotient_bits(_, _, _, _)
quotient_bits(rem, last, total, bits) ==
    IF bits = 0 THEN <<rem, last>>
    ELSE IF 2 * rem >= total THEN quotient_bits(2 * rem - total, 1, total, bits - 1)
    ELSE quotient_bits(2 * rem, 0, total, bits - 1)

\* count / total on binary64 floats, 0 < count < total: the sign of the
\* rounding error of the quotient (53 significant bits, round to nearest even)
float_div_error(count, total) ==
    LET d == quotient_bits(scaled_dividend(count, total) - total, 1, total, 52)
    IN  IF d[1] = 0 THEN 0
        ELSE IF 2 * d[1] < total THEN -1
        ELSE IF 2 * d[1] > total THEN 1
        ELSE IF d[2] = 0 THEN -1 ELSE 1

\* round(x, 6) of the float x = count / total, in millionths: the decimal
\* nearest to the value the float holds, the even one on an exact tie
round6_of_quotient(count, total) ==
    LET q == (count * 10^6) \div total
        rem == (count * 10^6) % total
    IN  IF 2 * rem < total THEN q
        ELSE IF 2 * rem > total THEN q + 1
        ELSE LET err == float_div_error(count, total)
             IN  IF err < 0 THEN q
                 ELSE IF err > 0 THEN q + 1
                 ELSE IF q % 2 = 0 THEN q ELSE q + 1

\* float(round((count / total) if total else 0.0, 6)) in millionths
rate_of(count, total) ==
    IF total = 0 THEN 0 ELSE round6_of_quotient(count, total)

\* how many times count is doubled to reach total: minus the binary exponent
\* of count / total
RECURSIVE doublings(_, _)
doublings(count, total) == IF count >= total THEN 0 ELSE 1 + doublings(2 * count, total)

RECURSIVE floor_log2(_)
floor_log2(k) == IF k < 2 THEN 0 ELSE 1 + floor_log2(k \div 2)

\* int(timeout_rate * 200) on binary64 floats, timeout_rate = timeouts / total
\* unrounded: the floor of 200 * timeouts / total, except where that is a
\* whole number k, the quotient was rounded down and the product falls more
\* than half a spacing below k, which gives k - 1
timeout_queue_term(timeouts, total) ==
    IF total = 0 THEN 0
    ELSE LET k == (timeouts * 200) \div total
         IN  IF (timeouts * 200) % total # 0 \/ timeouts = 0 THEN k
             ELSE LET d == quotient_bits(scaled_dividend(timeouts, total) - total, 1, total, 52)
                      L == floor_log2(k)
                      spacing == IF 2^L = k THEN 800 ELSE 400
                  IN  IF /\ float_div_error(timeouts, total) < 0
                         /\ spacing * d[1] > total * 2^(L + doublings(timeouts, total))
                      THEN k - 1 ELSE k

\* the timeout term taken away from the queue instead of added to it
queue_depth_falling(status, backend_id, total, timeouts) ==
    IF status = "down" THEN None
    ELSE Some(Max(0, Min(250, base_queue_of(backend_id) + total * 2
                              - timeout_queue_term(timeouts, total))))

queue_depth_of(status, backend_id, total, timeouts) ==
    IF status = "down" THEN None
    ELSE Some(Max(0, Min(250, base_queue_of(backend_id) + total * 2
                              + timeout_queue_term(timeouts, total))))

\* the budget left after the burn, below zero when the burn exceeds it
rate_limit_unfloored(status, backend_id, total, errors, timeouts) ==
    IF status = "down" THEN 0
    ELSE base_rl_of(backend_id) - (total * 8 + errors * 20 + timeouts * 30)

rate_limit_remaining_of(status, backend_id, total, errors, timeouts) ==
    IF status = "down" THEN 0
    ELSE Max(0, base_rl_of(backend_id) - (total * 8 + errors * 20 + timeouts * 30))

snapshot_row(dep_id, a, incs, window_end, window_sec) ==
    LET effects_now == incident_effects_for_request(
                           window_end, dep_id, ModelOf(dep_id), BackendOf(dep_id), incs)
        status == classify_status(a.total, a.errors, a.timeouts, pressure_of(effects_now))
    IN  [deployment_id |-> dep_id,
         status |-> status,
         window_sec |-> Max(window_sec, 1),
         sample_count |-> a.total,
         updated_at |-> to_rfc3339_z(window_end),
         latency_p50_ms |-> percentile(a.lat, 50),
         latency_p95_ms |-> percentile(a.lat, 95),
         error_rate |-> rate_of(a.errors, a.total),
         timeout_rate |-> rate_of(a.timeouts, a.total),
         queue_depth |-> queue_depth_of(status, BackendOf(dep_id), a.total, a.timeouts),
         rate_limit_remaining |->
             rate_limit_remaining_of(status, BackendOf(dep_id), a.total, a.errors, a.timeouts),
         ttft_p50_ms |-> percentile(a.ttft, 50),
         ttft_p95_ms |-> percentile(a.ttft, 95),
         decode_toks_per_sec_p50 |-> percentile(a.dec, 50),
         decode_toks_per_sec_p95 |-> percentile(a.dec, 95)]

compute_deployment_state_from_recent_requests(requests, deployments, incs, window_end, window_sec) ==
    LET dep_rows == window_rows(requests, window_end, window_sec)
        keys == agg_keys(deployments, dep_rows)
    IN  [i \in 1..Len(keys) |->
            snapshot_row(keys[i], aggregate(keys[i], dep_rows), incs, window_end, window_sec)]

-----------------------------------------------------------------------------
(* seed(): the pipeline from a configuration to a committed store *)

DefaultBatch == 5000
BatchSizes == (1..MaxBatch) \cup {DefaultBatch}
BaseNow == 14 * Day + 16 * Hour      \* 2024-01-15T16:00:00Z, days counted from 2024-01-01

SeedConfigs ==
    [rng_seed : 0..(NumSeeds - 1),
     days : 0..MaxDays,
     requests_per_user_per_day : 1..MaxPerDay,
     quality_coverage : {600},
     base_now : {BaseNow},
     insert_batch_size : BatchSizes,
     window_sec : {300}]

window_start_of(c) == c.base_now - c.days * Day

\* the store after _reset_db, connect and init_db: every table empty
EmptyDb ==
    [deployments |-> <<>>, users |-> <<>>, incidents |-> <<>>,
     requests |-> <<>>, quality_scores |-> <<>>,
     deployment_state_current |-> <<>>, committed |-> FALSE]

\* a close that keeps the rows of the open transaction
close_keeping(store) == store

\* conn.close() in the finally of seed(): rows written since the last commit
\* are rolled back
close_uncommitted(store) == IF store.committed THEN store ELSE EmptyDb

insert_many(store, name, rows) == [store EXCEPT ![name] = @ \o rows]

\* an insert that writes nothing
insert_dropped(store, rows) == store

insert_requests(store, rows) == [store EXCEPT !.requests = @ \o rows]

request_ids(store) == {store.requests[i].id : i \in 1..Len(store.requests)}

\* PRAGMA foreign_keys = ON: quality_scores.request_id must name a stored request
fk_satisfied(store, rows) == \A i \in 1..Len(rows) : rows[i].request_id \in request_ids(store)

insert_quality_scores(store, rows) == [store EXCEPT !.quality_scores = @ \o rows]

insert_deployment_state_current(store, rows) ==
    [store EXCEPT !.deployment_state_current = @ \o rows]

\* a condition that never holds
never(list) == FALSE

\* truth value of a list in a condition
truthy(list) == list # <<>>

\* the suspended generator: the user and index of the next pass, the locals
\* of the last pass, and the routing paths taken so far
GenStart == [user |-> 1, j |-> 0, frame |-> None, paths |-> {}]

gen_total(c) ==
    per_user_total_of(c.requests_per_user_per_day,
                      total_days_of(window_start_of(c), c.base_now))

\* the loops left after the first user
exhausted_after_first_user(g, per_user_total) == g.user > 1

\* the two loops of _generate_requests have no pass left
exhausted(g, per_user_total) == g.user > Len(make_users) \/ per_user_total = 0

advance(g, per_user_total, frame) ==
    [user |-> IF g.j + 1 < per_user_total THEN g.user ELSE g.user + 1,
     j |-> IF g.j + 1 < per_user_total THEN g.j + 1 ELSE 0,
     frame |-> Some(frame),
     paths |-> g.paths \cup {frame.path}]

Init ==
    /\ cfg \in SeedConfigs
    /\ pc = "start" /\ run = 1 /\ prev = None
    /\ rng = None /\ incidents = <<>> /\ perf_schedule = <<>>
    /\ gen = GenStart /\ batch = <<>> /\ q_batch = <<>>
    /\ db = EmptyDb
    /\ EffIdle /\ AggIdle /\ IncIdle /\ SelIdle /\ ReactIdle /\ QualIdle /\ DriftIdle

\* _seed_all up to the inserts of the dimension tables
BuildDimensions ==
    /\ pc = "start"
    /\ LET r1 == rng_next(rng_seeded(cfg.rng_seed))
           incs == make_incidents(r1, window_start_of(cfg), cfg.base_now)
       IN  /\ rng' = r1
           /\ incidents' = incs
           /\ db' = insert_many(insert_many(insert_many(db,
                        "deployments", make_deployments), "users", make_users),
                        "incidents", incs)
    /\ pc' = "schedule"
    /\ UNCHANGED <<cfg, perf_schedule, gen, batch, q_batch, run, prev,
                   direct_vars>>

BuildSchedule ==
    /\ pc = "schedule"
    /\ LET res == make_daily_perf_schedule(rng, make_deployments, cfg.days)
       IN  /\ rng' = res.rng
           /\ perf_schedule' = res.out
    /\ gen' = GenStart
    /\ pc' = "loop"
    /\ UNCHANGED <<cfg, incidents, batch, q_batch, db, run, prev,
                   direct_vars>>

\* one pass of "for req in req_gen" up to the test of the batch length
NextRequest ==
    /\ pc = "loop"
    /\ ~exhausted(gen, gen_total(cfg))
    /\ \E g \in {generate_request(rng, make_users[gen.user], gen.j, make_deployments,
                                  window_start_of(cfg), cfg.base_now,
                                  cfg.requests_per_user_per_day, incidents, perf_schedule)} :
       \E rc \in {rng_next(g.rng)} :
          /\ gen' = advance(gen, gen_total(cfg), g.frame)
          /\ batch' = Append(batch, g.req)
          /\ IF sampled_for_quality(rc, cfg.quality_coverage)
             THEN \E qr \in {make_quality_row(rc, g.req, cfg.base_now, incidents)} :
                     q_batch' = Append(q_batch, qr.q) /\ rng' = qr.rng
             ELSE q_batch' = q_batch /\ rng' = rc
          /\ pc' = IF Len(batch) + 1 >= cfg.insert_batch_size THEN "flush_requests" ELSE "loop"
    /\ UNCHANGED <<cfg, incidents, perf_schedule, db, run, prev,
                   direct_vars>>

\* _insert_requests(conn, batch) of the flush inside the loop; with no
\* quality row waiting both lists are cleared at once
FlushRequests ==
    /\ pc = "flush_requests"
    /\ db' = insert_requests(db, batch)
    /\ IF truthy(q_batch)
       THEN pc' = "flush_quality" /\ UNCHANGED <<batch, q_batch>>
       ELSE pc' = "loop" /\ batch' = <<>> /\ q_batch' = <<>>
    /\ UNCHANGED <<cfg, rng, incidents, perf_schedule, gen, run, prev,
                   direct_vars>>

\* _insert_quality_scores(conn, q_batch), then batch.clear() and q_batch.clear()
FlushQuality ==
    /\ pc = "flush_quality"
    /\ IF fk_satisfied(db, q_batch)
       THEN /\ db' = insert_quality_scores(db, q_batch)
            /\ batch' = <<>> /\ q_batch' = <<>>
            /\ pc' = "loop"
       ELSE pc' = "failed" /\ db' = close_uncommitted(db) /\ UNCHANGED <<batch, q_batch>>
    /\ UNCHANGED <<cfg, rng, incidents, perf_schedule, gen, run, prev,
                   direct_vars>>

\* the generator is exhausted: "if batch: _insert_requests(conn, batch)"
FinalRequests ==
    /\ pc = "loop"
    /\ exhausted(gen, gen_total(cfg))
    /\ db' = IF truthy(batch) THEN insert_requests(db, batch) ELSE db
    /\ pc' = "final_quality"
    /\ UNCHANGED <<cfg, rng, incidents, perf_schedule, gen, batch, q_batch, run, prev,
                   direct_vars>>

\* "if q_batch: _insert_quality_scores(conn, q_batch)"
FinalQuality ==
    /\ pc = "final_quality"
    /\ IF truthy(q_batch) /\ ~fk_satisfied(db, q_batch)
       THEN pc' = "failed" /\ db' = close_uncommitted(db)
       ELSE /\ db' = IF truthy(q_batch) THEN insert_quality_scores(db, q_batch) ELSE db
            /\ pc' = "snapshot"
    /\ UNCHANGED <<cfg, rng, incidents, perf_schedule, gen, batch, q_batch, run, prev,
                   direct_vars>>

\* the snapshot computed from the stored requests and inserted
Snapshot ==
    /\ pc = "snapshot"
    /\ db' = insert_deployment_state_current(db,
                 compute_deployment_state_from_recent_requests(
                     db.requests, make_deployments, incidents, cfg.base_now, cfg.window_sec))
    /\ pc' = "commit"
    /\ UNCHANGED <<cfg, rng, incidents, perf_schedule, gen, batch, q_batch, run, prev,
                   direct_vars>>

\* conn.commit() and conn.close() of seed()
Commit ==
    /\ pc = "commit"
    /\ db' = [db EXCEPT !.committed = TRUE]
    /\ pc' = "done"
    /\ UNCHANGED <<cfg, rng, incidents, perf_schedule, gen, batch, q_batch, run, prev,
                   direct_vars>>

\* a second call of seed() on the same path: same configuration, any batch
\* size; prev keeps what the first call left
Reseed ==
    /\ pc = "done" /\ run = 1
    /\ prev' = Some([cfg |-> cfg, db |-> db, rng |-> rng])
    /\ \E b \in BatchSizes : cfg' = [cfg EXCEPT !.insert_batch_size = b]
    /\ run' = 2
    /\ pc' = "start"
    /\ rng' = None /\ incidents' = <<>> /\ perf_schedule' = <<>>
    /\ gen' = GenStart /\ batch' = <<>> /\ q_batch' = <<>>
    /\ db' = EmptyDb
    /\ UNCHANGED direct_vars

\* the positions of a call of seed() that has neither returned nor raised
RunningSteps == {"start", "schedule", "loop", "flush_requests", "flush_quality",
                 "final_quality", "snapshot", "commit"}

\* an exception raised by any step of init_db or _seed_all, or by the commit:
\* the finally of seed() closes the connection and the exception reaches the
\* caller; the locals are gone, gen keeps the position the generator had reached
Fail ==
    /\ pc \in RunningSteps
    /\ pc' = "failed"
    /\ db' = close_uncommitted(db)
    /\ rng' = None /\ incidents' = <<>> /\ perf_schedule' = <<>>
    /\ gen' = [GenStart EXCEPT !.user = gen.user, !.j = gen.j]
    /\ batch' = <<>> /\ q_batch' = <<>>
    /\ UNCHANGED <<cfg, run, prev, direct_vars>>

Next ==
    \/ BuildDimensions
    \/ BuildSchedule
    \/ NextRequest
    \/ FlushRequests
    \/ FlushQuality
    \/ FinalRequests
    \/ FinalQuality
    \/ Snapshot
    \/ Commit
    \/ Reseed

Spec == Init /\ [][Next]_vars

\* seed() with a failure possible at every step
NextOrFail == Next \/ Fail

SpecFail == Init /\ [][NextOrFail]_vars

-----------------------------------------------------------------------------
(* Properties of seed() *)

First == Val(prev)
SecondDone == run = 2 /\ pc = "done"
Users == make_users
Catalog == dep_ids_of(make_deployments)
Generated(c) == Len(Users) * gen_total(c)

\* the two calls agree on every field of the configuration but the batch size
SameConfig(c, d) ==
    /\ c.rng_seed = d.rng_seed /\ c.days = d.days
    /\ c.requests_per_user_per_day = d.requests_per_user_per_day
    /\ c.quality_coverage = d.quality_coverage
    /\ c.base_now = d.base_now /\ c.window_sec = d.window_sec

C2_OneRowPerUserAndIndex ==
    (pc = "done" /\ cfg.days >= 1) =>
        LET per_user == cfg.requests_per_user_per_day * cfg.days
        IN  /\ Len(db.requests) = Len(Users) * per_user
            /\ \A k \in 1..Len(db.requests) :
                  /\ db.requests[k].id
                       = request_id(Users[((k - 1) \div per_user) + 1].id, (k - 1) % per_user)
                  /\ db.requests[k].user_id = Users[((k - 1) \div per_user) + 1].id

C2_Witness ==
    /\ pc = "done" /\ db.committed
    /\ cfg.days = MaxDays /\ cfg.requests_per_user_per_day = MaxPerDay
    /\ Len(db.requests) = Len(Users) * MaxPerDay * MaxDays
    /\ db.requests[1].id = request_id(Users[1].id, 0)
    /\ db.requests[Len(db.requests)].id
         = request_id(Users[Len(Users)].id, MaxPerDay * MaxDays - 1)

SnapshotIds ==
    {db.deployment_state_current[i].deployment_id : i \in 1..Len(db.deployment_state_current)}

\* C3: once seed() has completed, deployment_state_current holds one row for
\* every deployment of the catalog and no other row, with or without requests
\* of that deployment in the trailing window.
C3_OneSnapshotRowPerDeployment ==
    pc = "done" =>
        /\ SnapshotIds = dep_ids_of(db.deployments)
        /\ Len(db.deployment_state_current) = Cardinality(dep_ids_of(db.deployments))
        /\ Len(db.deployment_state_current) = Len(db.deployments)

C3_Witness ==
    /\ pc = "done"
    /\ Len(db.deployment_state_current) = Len(make_deployments)
    /\ \E i \in 1..Len(db.deployment_state_current) :
          db.deployment_state_current[i].sample_count = 0
    /\ \E i \in 1..Len(db.deployment_state_current) :
          db.deployment_state_current[i].sample_count > 0
    /\ cfg.days >= 1

\* C6: the deployment_id of every generated request is the id of a deployment
\* of the catalog, on the incident-ignoring path and on the incident-aware
\* path alike.
C6_RequestsReferenceCatalog ==
    /\ \A i \in 1..Len(batch) : batch[i].deployment_id \in Catalog
    /\ \A i \in 1..Len(db.requests) : db.requests[i].deployment_id \in Catalog

C6_Witness ==
    /\ gen.paths = {"ignore", "aware"}
    /\ gen.user > Len(Users)
    /\ Len(batch) = Generated(cfg)
    /\ \A i \in 1..Len(batch) : batch[i].deployment_id \in Catalog
    /\ \E i, k \in 1..Len(batch) :
          /\ batch[i].routing_reason.tier_id = batch[k].routing_reason.tier_id
          /\ batch[i].deployment_id # batch[k].deployment_id

\* C7: whatever insert_batch_size, a quality-score row is inserted only after
\* the request row it references: when a quality batch is about to be
\* written, in the loop or after it, every request it references is stored;
\* no insert fails and no stored score references a missing request.
C7_QualityAfterItsRequest ==
    /\ pc # "failed"
    /\ pc \in {"flush_quality", "final_quality"} =>
          \A i \in 1..Len(q_batch) : q_batch[i].request_id \in request_ids(db)
    /\ \A i \in 1..Len(db.quality_scores) :
          db.quality_scores[i].request_id \in request_ids(db)

C7_Witness ==
    /\ run = 2 /\ pc = "flush_quality"
    /\ Len(q_batch) = MaxBatch /\ db.quality_scores # <<>>
    /\ \A i \in 1..Len(q_batch) : q_batch[i].request_id \in request_ids(db)
    /\ First.cfg.insert_batch_size = DefaultBatch
    /\ First.db.quality_scores # <<>>

Distinct(ids) == Cardinality(SeqRange(ids)) = Len(ids)

\* C8: the request rows, the quality-score rows and the snapshot rows, in
\* content and order, and the draws of the stream do not depend on
\* insert_batch_size; every generated request and every sampled score is
\* inserted once.
C8_BatchSizeIsNotObservable ==
    SecondDone =>
        /\ db.requests = First.db.requests
        /\ db.quality_scores = First.db.quality_scores
        /\ db.deployment_state_current = First.db.deployment_state_current
        /\ rng = First.rng
        /\ Len(db.requests) = Generated(cfg)
        /\ Distinct([i \in 1..Len(db.requests) |-> db.requests[i].id])
        /\ Distinct([i \in 1..Len(db.quality_scores) |-> db.quality_scores[i].request_id])

C8_Witness ==
    /\ SecondDone
    /\ First.cfg.insert_batch_size = DefaultBatch /\ cfg.insert_batch_size = 1
    /\ Len(db.requests) = Len(Users) * MaxPerDay * MaxDays
    /\ db.requests = First.db.requests
    /\ db.quality_scores # <<>> /\ db.quality_scores = First.db.quality_scores
    /\ rng = First.rng

\* the step that writes deployment_state_current
SnapshotWritten ==
    /\ db'.deployment_state_current # db.deployment_state_current
    /\ db'.deployment_state_current # <<>>

\* C9: the snapshot aggregator runs once per seed() and after all writes of
\* requests: at its step the generator is exhausted, every generated request
\* is stored and nothing of either batch is left to insert.
C9_SnapshotOnceAfterAllWrites ==
    /\ [][SnapshotWritten =>
            /\ pc = "snapshot" /\ db.deployment_state_current = <<>>
            /\ exhausted(gen, gen_total(cfg))
            /\ Len(db.requests) = Generated(cfg)
            /\ SeqRange(batch) \subseteq SeqRange(db.requests)
            /\ SeqRange(q_batch) \subseteq SeqRange(db.quality_scores)]_vars
    /\ [](pc \in {"commit", "done"} => db.deployment_state_current # <<>>)

C9_Witness ==
    /\ pc = "commit"
    /\ db.deployment_state_current # <<>>
    /\ Len(db.requests) = Len(Users) * MaxPerDay * MaxDays
    /\ cfg.insert_batch_size = DefaultBatch
    /\ batch # <<>> /\ SeqRange(batch) \subseteq SeqRange(db.requests)

-----------------------------------------------------------------------------
(* Direct calls of the incident effect calculator *)

PipelineIdle ==
    /\ cfg = None /\ pc = "idle" /\ rng = 0 /\ incidents = <<>>
    /\ perf_schedule = <<>> /\ gen = None /\ batch = <<>> /\ q_batch = <<>>
    /\ db = None /\ run = 0 /\ prev = None

\* an incident window of the probe, in whole seconds
ProbeWindow == [start |-> 3600, end |-> 7200]
ProbeStart == ProbeWindow.start
ProbeEnd == ProbeWindow.end

ProbeIncident(idx, open_ended) ==
    LET sc == Scenarios[idx]
    IN  [id |-> idx, target_type |-> sc[1], target_id |-> sc[2], title |-> sc[3],
         status |-> IF open_ended THEN "active" ELSE "resolved",
         started_at |-> ProbeStart,
         resolved_at |-> IF open_ended THEN None ELSE Some(ProbeEnd)]

ProbePool ==
    {ProbeIncident(idx, o) : idx \in {1, 3, 5, 6, 7}, o \in BOOLEAN}

RECURSIVE ListsUpTo(_, _)
ListsUpTo(S, n) ==
    IF n = 0 THEN {<<>>}
    ELSE ListsUpTo(S, n - 1)
         \cup {Append(l, x) : l \in {m \in ListsUpTo(S, n - 1) : Len(m) = n - 1}, x \in S}

ProbeTimes ==
    {parse_rfc3339_z(ProbeStart) - 1, parse_rfc3339_z(ProbeStart),
     parse_rfc3339_z(ProbeEnd), parse_rfc3339_z(ProbeEnd) + 1}

ProbeTargets ==
    {DepId("gpt-4", "k8s"), DepId("gpt-4", "neocloud"), DepId("claude-3-sonnet", "aws")}

EffInit ==
    /\ PipelineIdle
    /\ eff_in \in [created_at : ProbeTimes, deployment_id : ProbeTargets,
                   incidents : ListsUpTo(ProbePool, MaxIncidents)]
    /\ eff_out = None
    /\ AggIdle /\ IncIdle /\ SelIdle /\ ReactIdle /\ QualIdle /\ DriftIdle

EffCall ==
    /\ eff_in # None /\ eff_out = None
    /\ eff_out' = Some(incident_effects_for_request(
                           eff_in.created_at, eff_in.deployment_id,
                           ModelOf(eff_in.deployment_id), BackendOf(eff_in.deployment_id),
                           eff_in.incidents))
    /\ UNCHANGED <<pipeline_vars, drift_vars, qual_vars, eff_in, agg_vars, inc_vars, sel_vars, react_vars>>

EffNext == EffCall

SpecEff == EffInit /\ [][EffNext]_vars


-----------------------------------------------------------------------------
(* C10 *)

\* The title table of the effect calculator: keywords, error and timeout
\* increments in percent, TTFT and decode factors in percent.
TitleTable ==
    << [keys |-> {"ttft", "cold start"}, err |-> 0, tmo |-> 0, ttft |-> 135, dec |-> 97],
       [keys |-> {"rate limit"}, err |-> 5, tmo |-> 5, ttft |-> 105, dec |-> 100],
       [keys |-> {"spot", "queue"}, err |-> 0, tmo |-> 5, ttft |-> 125, dec |-> 85],
       [keys |-> {"5xx"}, err |-> 7, tmo |-> 1, ttft |-> 100, dec |-> 100] >>

BaselineRow == [err |-> 3, tmo |-> 2, ttft |-> 115, dec |-> 90]

Compose(e, row) ==
    [error_add |-> e.error_add + row.err,
     timeout_add |-> e.timeout_add + row.tmo,
     ttft_mult |-> (e.ttft_mult * row.ttft) \div 100,
     decode_mult |-> (e.decode_mult * row.dec) \div 100]

\* the rows an incident contributes: the baseline, then each row of the table
\* one of whose keywords its lower-cased title contains, once
RowsOf(inc) ==
    <<BaselineRow>>
    \o SelectSeq(TitleTable, LAMBDA row : \E k \in row.keys : Contains(k, lower(inc.title)))

RECURSIVE ComposeRows(_, _)
ComposeRows(e, rows) ==
    IF rows = <<>> THEN e ELSE ComposeRows(Compose(e, Head(rows)), Tail(rows))

Contributes(inc, t, dep) ==
    /\ parse_rfc3339_z(inc.started_at) <= t
    /\ (IsNone(inc.resolved_at) \/ t <= parse_rfc3339_z(Val(inc.resolved_at)))
    /\ \/ inc.target_type = "deployment" /\ inc.target_id = dep
       \/ inc.target_type = "model" /\ inc.target_id = dep[1]
       \/ inc.target_type = "backend" /\ inc.target_id = dep[2]

RECURSIVE ExpectedEffects(_, _, _)
ExpectedEffects(incs, t, dep) ==
    IF incs = <<>> THEN [error_add |-> 0, timeout_add |-> 0,
                         ttft_mult |-> MultScale, decode_mult |-> MultScale]
    ELSE LET before == ExpectedEffects(SubSeq(incs, 1, Len(incs) - 1), t, dep)
             last == incs[Len(incs)]
         IN  IF Contributes(last, t, dep) THEN ComposeRows(before, RowsOf(last)) ELSE before

\* C10: the effect calculator returns the neutral record composed with, for each
\* incident of the list that is active at t (start <= t, and no end or t <= end)
\* and whose scope matches the target, the baseline increment and each keyword row
\* of the title table once; rates add, factors multiply, and the other incidents
\* contribute nothing.
C10_EffectsFollowTable ==
    ~IsNone(eff_out) =>
        Val(eff_out) = ExpectedEffects(eff_in.incidents, eff_in.created_at, eff_in.deployment_id)

\* a call at the inclusive end of a matching incident whose title holds both
\* keywords of one row, beside an incident that does not contribute
C10_Witness ==
    /\ ~IsNone(eff_out)
    /\ Len(eff_in.incidents) = 2
    /\ eff_in.created_at = parse_rfc3339_z(ProbeEnd)
    /\ \E i, j \in 1..2 :
          /\ Contributes(eff_in.incidents[i], eff_in.created_at, eff_in.deployment_id)
          /\ Contains("spot", lower(eff_in.incidents[i].title))
          /\ Contains("queue", lower(eff_in.incidents[i].title))
          /\ ~Contributes(eff_in.incidents[j], eff_in.created_at, eff_in.deployment_id)
    /\ Val(eff_out).timeout_add = 7
    /\ Val(eff_out).error_add = 3


-----------------------------------------------------------------------------
(* Direct calls of the snapshot aggregator *)

AggFocus == DepId("gpt-4", "aws")
AggOther == DepId("mixtral-8x7b", "k8s")

\* a backend incident that ends at ProbeEnd, an open-ended rate-limit incident
\* on the model, and the active incident on the focus deployment
AggPool ==
    {ProbeIncident(2, FALSE), ProbeIncident(3, TRUE),
     [id |-> Len(Scenarios) + 1, target_type |-> "deployment", target_id |-> AggFocus,
      title |-> ActiveTitle, status |-> "active",
      started_at |-> ProbeStart, resolved_at |-> None]}

\* the reference now: at the end of the closed probe incidents, or one tick later
AggNows == {parse_rfc3339_z(ProbeEnd), parse_rfc3339_z(ProbeEnd) + 1}

AggWindowSecs == {300}

AggSuccessCounts == {0, 1, 28}
AggErrorCounts == {0, 1, 3}
AggTimeoutCounts == {0, 2}
AggOldCounts == {0, 1}

\* the (success, error, timeout) counts of the focus deployment: the small
\* counts combined, and a window of 640 requests that all failed
AggCounts ==
    (AggSuccessCounts \X AggErrorCounts \X AggTimeoutCounts) \cup {<<0, 9, 631>>}

AggRow(k, dep_id, status, created_at) ==
    [id |-> k, created_at |-> created_at, deployment_id |-> dep_id,
     model_id |-> ModelOf(dep_id), backend_id |-> BackendOf(dep_id),
     status |-> status,
     latency_ms |-> 900 - 13 * ((k * 7) % 31),
     ttft_ms |-> 200 - 3 * ((k * 5) % 29),
     decode_toks_per_sec |-> 40000 + 1500 * ((k * 11) % 17)]

\* a request log: rows of the focus deployment on both edges of the trailing
\* window, rows older than the window, and rows of another deployment (one, or
\* thirty-one of which three are errors)
AggLog(n_ok, n_err, n_tmo, n_old, other_heavy, window_sec) ==
    LET end_s == ProbeEnd
        start_s == ProbeEnd - window_sec
        edge(k) == IF k % 2 = 0 THEN end_s ELSE start_s
        n == n_ok + n_err + n_tmo + n_old
    IN  [k \in 1..n_ok |-> AggRow(k, AggFocus, "success", edge(k))]
        \o [k \in 1..n_err |-> AggRow(n_ok + k, AggFocus, "error", edge(k))]
        \o [k \in 1..n_tmo |-> AggRow(n_ok + n_err + k, AggFocus, "timeout", edge(k))]
        \o [k \in 1..n_old |-> AggRow(n_ok + n_err + n_tmo + k, AggFocus, "success", start_s - 1)]
        \o <<AggRow(n + 1, AggOther, "success", end_s)>>
        \o (IF other_heavy
            THEN [k \in 1..30 |-> AggRow(n + 1 + k, AggOther,
                                         IF k <= 3 THEN "error" ELSE "success", edge(k))]
            ELSE <<>>)

AggInit ==
    /\ PipelineIdle
    /\ EffIdle /\ IncIdle /\ SelIdle /\ ReactIdle /\ QualIdle /\ DriftIdle
    /\ \E c \in AggCounts, n_old \in AggOldCounts, other_heavy \in BOOLEAN,
          w \in AggWindowSecs :
          agg_in \in [requests : {AggLog(c[1], c[2], c[3], n_old, other_heavy, w)},
                      incidents : ListsUpTo(AggPool, MaxIncidents),
                      window_end : AggNows,
                      window_sec : {w}]
    /\ agg_out = None

AggCall ==
    /\ agg_in # None /\ agg_out = None
    /\ agg_out' = Some(compute_deployment_state_from_recent_requests(
                           agg_in.requests, make_deployments, agg_in.incidents,
                           agg_in.window_end, agg_in.window_sec))
    /\ UNCHANGED <<pipeline_vars, drift_vars, qual_vars, eff_vars, agg_in, inc_vars, sel_vars, react_vars>>

AggNext == AggCall

SpecAgg == AggInit /\ [][AggNext]_vars


-----------------------------------------------------------------------------
(* C4, C5 *)

\* indices of the rows of the log of a direct call that lie in the trailing
\* window and belong to a deployment, read off the log itself
InWindow(dep) ==
    {k \in 1..Len(agg_in.requests) :
        /\ agg_in.requests[k].deployment_id = dep
        /\ agg_in.requests[k].created_at <= to_rfc3339_z(agg_in.window_end)
        /\ agg_in.requests[k].created_at >=
               to_rfc3339_z(agg_in.window_end - agg_in.window_sec * Second)}

WithStatus(dep, st) == {k \in InWindow(dep) : agg_in.requests[k].status = st}

PressureNow(dep) ==
    LET e == ExpectedEffects(agg_in.incidents, agg_in.window_end, dep)
    IN  e.error_add + e.timeout_add

DecisionTable(dep) ==
    LET n == Cardinality(InWindow(dep))
        timeouts == Cardinality(WithStatus(dep, "timeout"))
        errors == Cardinality(WithStatus(dep, "error"))
    IN  IF PressureNow(dep) >= 15 THEN "down"
        ELSE IF n >= 30 /\ (100 * timeouts > 5 * n \/ 100 * errors > 7 * n) THEN "degraded"
        ELSE "healthy"

AggRows == IF IsNone(agg_out) THEN {} ELSE SeqRange(Val(agg_out))

\* C4: the status of every snapshot row follows the decision table read top-down:
\* down if the incident pressure at the reference now is >= 0.15, whatever the
\* samples; otherwise degraded if there are at least 30 samples and the timeout
\* rate exceeds 0.05 or the error rate exceeds 0.07; otherwise healthy.
C4_StatusFollowsTable ==
    \A row \in AggRows : row.status = DecisionTable(row.deployment_id)

\* one snapshot with the three outcomes: a row that is down although its 30 or
\* more samples exceed the error threshold, a degraded row and a healthy row
C4_Witness ==
    /\ \E row \in AggRows :
          /\ row.status = "down" /\ row.sample_count >= 30
          /\ PressureNow(row.deployment_id) = 15
          /\ 100 * Cardinality(WithStatus(row.deployment_id, "error")) > 7 * row.sample_count
    /\ \E row \in AggRows :
          /\ row.status = "degraded" /\ row.sample_count >= 30
          /\ PressureNow(row.deployment_id) < 15
    /\ \E row \in AggRows : row.status = "healthy"

Percentiles(row) ==
    <<row.latency_p50_ms, row.latency_p95_ms, row.ttft_p50_ms, row.ttft_p95_ms,
      row.decode_toks_per_sec_p50, row.decode_toks_per_sec_p95>>

\* C5 as stated: a deployment with no request inside the trailing window gets
\* sample_count 0, status healthy and six null percentiles, for any incident list.
C5_ZeroSamplesAlwaysHealthy ==
    \A row \in AggRows :
        InWindow(row.deployment_id) = {} =>
            /\ row.sample_count = 0
            /\ row.status = "healthy"
            /\ \A i \in 1..6 : IsNone(Percentiles(row)[i])

\* C5 amended: a deployment with no request inside the trailing window gets
\* sample_count 0 and six null percentiles; it is never degraded, and it is
\* healthy unless the incident pressure at the reference now is >= 0.15, in
\* which case it is down.
C5_ZeroSamplesHealthyUnlessPressure ==
    \A row \in AggRows :
        InWindow(row.deployment_id) = {} =>
            /\ row.sample_count = 0
            /\ \A i \in 1..6 : IsNone(Percentiles(row)[i])
            /\ row.status # "degraded"
            /\ (row.status = "healthy" <=> PressureNow(row.deployment_id) < 15)
            /\ (row.status = "down" <=> PressureNow(row.deployment_id) >= 15)

\* the focus deployment has rows in the log but none inside the window and is
\* down; another deployment without samples is healthy under a pressure of 0.05
C5_Witness ==
    /\ \E row \in AggRows :
          /\ row.deployment_id = AggFocus
          /\ InWindow(AggFocus) = {}
          /\ \E k \in 1..Len(agg_in.requests) : agg_in.requests[k].deployment_id = AggFocus
          /\ row.status = "down" /\ row.sample_count = 0
    /\ \E row \in AggRows :
          /\ InWindow(row.deployment_id) = {}
          /\ PressureNow(row.deployment_id) = 5
          /\ row.status = "healthy"

-----------------------------------------------------------------------------
(* Properties of the synthetic queue depth and rate-limit remaining *)

FocusRow == CHOOSE row \in AggRows : row.deployment_id = AggFocus

\* the row of the focus deployment when one more request with status st,
\* created at the reference now, is in the log
FocusRowAfter(st) ==
    LET more == Append(agg_in.requests,
                       AggRow(Len(agg_in.requests) + 1, AggFocus, st,
                              to_rfc3339_z(agg_in.window_end)))
        out == compute_deployment_state_from_recent_requests(
                   more, make_deployments, agg_in.incidents,
                   agg_in.window_end, agg_in.window_sec)
    IN  CHOOSE row \in SeqRange(out) : row.deployment_id = AggFocus

\* C24 as stated: for a deployment that is not down, one more request of any
\* status in the trailing window never lowers queue_depth, which stays capped
\* at 250.
C24_QueueNeverDropsOnArrival ==
    (agg_out # None /\ FocusRow.status # "down") =>
        \A st \in {"success", "error", "timeout"} :
            \E after \in {FocusRowAfter(st)} :
                /\ Val(after.queue_depth) >= Val(FocusRow.queue_depth)
                /\ Val(after.queue_depth) <= 250

\* C24 amended: for a deployment that is not down, one more request with
\* status timeout in the trailing window never lowers queue_depth, which
\* stays capped at 250.
C24_QueueNeverDropsOnTimeout ==
    (agg_out # None /\ FocusRow.status # "down") =>
        \E after \in {FocusRowAfter("timeout")} :
            /\ after.sample_count = FocusRow.sample_count + 1
            /\ Val(after.queue_depth) >= Val(FocusRow.queue_depth)
            /\ Val(after.queue_depth) <= 250

\* a window with a success and two timeouts, below the cap: one more timeout
\* raises the queue depth, one more success lowers it
C24_Witness ==
    /\ agg_out # None /\ FocusRow.status # "down"
    /\ FocusRow.sample_count = 3
    /\ Cardinality(WithStatus(AggFocus, "timeout")) = 2
    /\ Val(FocusRow.queue_depth) < 250
    /\ Val(FocusRowAfter("timeout").queue_depth) > Val(FocusRow.queue_depth)
    /\ Val(FocusRowAfter("success").queue_depth) < Val(FocusRow.queue_depth)

\* C25: a snapshot row with status down has queue_depth null and
\* rate_limit_remaining 0; every other row has 0 <= queue_depth <= 250 and
\* 0 <= rate_limit_remaining <= the baseline of its backend (aws 900,
\* k8s 2000, neocloud 1200, any other 1000).
BackendBaseline(backend_id) ==
    IF backend_id = "aws" THEN 900
    ELSE IF backend_id = "k8s" THEN 2000
    ELSE IF backend_id = "neocloud" THEN 1200
    ELSE 1000

C25_DownRowsCarryNoQueue ==
    \A row \in AggRows :
        IF row.status = "down"
        THEN row.queue_depth = None /\ row.rate_limit_remaining = 0
        ELSE /\ row.queue_depth # None
             /\ Val(row.queue_depth) >= 0 /\ Val(row.queue_depth) <= 250
             /\ row.rate_limit_remaining >= 0
             /\ row.rate_limit_remaining <= BackendBaseline(BackendOf(row.deployment_id))

\* one snapshot with a down row, and a snapshot whose focus row, not down,
\* sits on the ceiling of the queue and on the floor of the rate limit while
\* a row without samples keeps the whole baseline of its backend
C25_Witness ==
    \/ /\ \E row \in AggRows :
             /\ row.status = "down" /\ row.sample_count > 0
             /\ row.queue_depth = None /\ row.rate_limit_remaining = 0
       /\ \E row \in AggRows : row.status # "down" /\ row.rate_limit_remaining = 2000
    \/ /\ agg_out # None
       /\ FocusRow.status = "degraded"
       /\ FocusRow.queue_depth = Some(250)
       /\ FocusRow.rate_limit_remaining = 0
       /\ 640 * 8 > BackendBaseline("aws")

-----------------------------------------------------------------------------
(* Direct calls of the incident builder *)

\* reference times of the probe: midnight, shortly after it, morning, midday,
\* the default 16:00 and the last tick of a day
IncNows == {14 * Day, 14 * Day + 4 * Minute, 14 * Day + 9 * Hour,
            14 * Day + 12 * Hour + 30 * Minute, BaseNow, 15 * Day - 1}

\* window lengths: whole days and whole days plus a part of a day
IncLengths == {d * Day + e : d \in 0..MaxDays, e \in {0, 7 * Hour + 1}}

IncInit ==
    /\ PipelineIdle
    /\ EffIdle /\ AggIdle /\ SelIdle /\ ReactIdle /\ QualIdle /\ DriftIdle
    /\ \E now \in IncNows, len \in IncLengths :
          inc_in \in [seed : 0..(NumSeeds - 1), window_start : {now - len},
                      window_end : {now}]
    /\ inc_out = None

IncCall ==
    /\ inc_in # None /\ inc_out = None
    /\ inc_out' = Some(make_incidents(rng_next(rng_seeded(inc_in.seed)),
                                      inc_in.window_start, inc_in.window_end))
    /\ UNCHANGED <<pipeline_vars, drift_vars, qual_vars, eff_vars, agg_vars, inc_in, sel_vars, react_vars>>

IncNext == IncCall

SpecInc == IncInit /\ [][IncNext]_vars

-----------------------------------------------------------------------------
(* Properties of the incident list *)

IncList == Val(inc_out)
Resolved(i) == IncList[i].status = "resolved"
Active(i) == IncList[i].status = "active"
IncWindowLength == inc_in.window_end - inc_in.window_start

\* C11: for a window of at least one day every incident with status resolved
\* has started_at <= resolved_at <= window_end, and exactly one incident, the
\* active one, has no resolved_at.
C11_ResolvedWithinWindow ==
    (inc_out # None /\ IncWindowLength >= Day) =>
        /\ \A i \in 1..Len(IncList) :
              Resolved(i) =>
                  /\ IncList[i].resolved_at # None
                  /\ IncList[i].started_at <= Val(IncList[i].resolved_at)
                  /\ parse_rfc3339_z(Val(IncList[i].resolved_at)) <= inc_in.window_end
        /\ Cardinality({i \in 1..Len(IncList) : IncList[i].resolved_at = None}) = 1
        /\ \A i \in 1..Len(IncList) : IncList[i].resolved_at = None => Active(i)

\* a window of one day ending at midnight, with a scripted incident that is
\* resolved exactly at the reference time
C11_Witness ==
    /\ inc_out # None
    /\ IncWindowLength = Day
    /\ \E i \in 1..Len(IncList) :
          /\ Resolved(i)
          /\ parse_rfc3339_z(Val(IncList[i].resolved_at)) = inc_in.window_end
          /\ IncList[i].started_at < Val(IncList[i].resolved_at)

\* C12: for any window and seed the list has 8 incidents with pairwise
\* distinct ids, 7 of them resolved with a resolved_at and 1 active without,
\* the active one starting at or before window_end; resolved_at is null
\* exactly for the active status.
C12_SevenResolvedOneActive ==
    inc_out # None =>
        /\ Len(IncList) = 8
        /\ \A i, j \in 1..Len(IncList) : IncList[i].id = IncList[j].id => i = j
        /\ Cardinality({i \in 1..Len(IncList) : Resolved(i)}) = 7
        /\ Cardinality({i \in 1..Len(IncList) : Active(i)}) = 1
        /\ \A i \in 1..Len(IncList) :
              /\ IncList[i].status \in {"resolved", "active"}
              /\ IncList[i].resolved_at = None <=> Active(i)
              /\ Active(i) => parse_rfc3339_z(IncList[i].started_at) <= inc_in.window_end

\* an empty window whose active incident targets the second choice
C12_Witness ==
    /\ inc_out # None
    /\ IncWindowLength = 0
    /\ \E i \in 1..Len(IncList) :
          /\ Active(i)
          /\ IncList[i].target_id = ActiveTargets[2]
          /\ IncList[i].resolved_at = None

\* C22: for every window of at least one day, windows shorter than the
\* scripted day offsets included, every scripted incident starts at or after
\* window_start.
C22_ScriptedStartInsideWindow ==
    (inc_out # None /\ IncWindowLength >= Day) =>
        \A i \in 1..Len(IncList) :
            Resolved(i) => parse_rfc3339_z(IncList[i].started_at) >= inc_in.window_start

-----------------------------------------------------------------------------
(* Direct calls of the routing selector *)

SelTiers == {"premium", "standard", "budget"}

\* candidate lists: the three tier lists, and lists of one, three and four
\* candidates holding the disabled deployment and a deployment under incidents
SelPreferred ==
    {tier_preferred_deployments(t) : t \in SelTiers}
    \cup {<<DisabledDeployment>>,
          <<DepId("gpt-4", "k8s"), DepId("gpt-4", "neocloud"), DisabledDeployment>>,
          <<DepId("gpt-4", "neocloud"), DepId("claude-3-sonnet", "aws"),
            DepId("gpt-4", "k8s"), DisabledDeployment>>}

\* open-ended incidents on the model gpt-4, the backend neocloud and the
\* deployment gpt-4/neocloud
SelPool == {ProbeIncident(idx, TRUE) : idx \in {3, 5, 6}}

\* enabled_ids: that of the catalog, and one that also lacks gpt-4/neocloud
SelEnabled ==
    {enabled_ids_of(make_deployments),
     enabled_ids_of(make_deployments) \ {DepId("gpt-4", "neocloud")}}

\* states of the stream handed to the selector
SelStreams == {rng_seeded(seed) : seed \in 0..(4 * NumSeeds - 1)}

SelInit ==
    /\ PipelineIdle
    /\ EffIdle /\ AggIdle /\ IncIdle /\ ReactIdle /\ QualIdle /\ DriftIdle
    /\ sel_in \in [rng : SelStreams, tier_id : SelTiers,
                   created_at : {parse_rfc3339_z(ProbeStart) - 1, parse_rfc3339_z(ProbeStart)},
                   preferred : SelPreferred,
                   incidents : ListsUpTo(SelPool, MaxIncidents),
                   enabled_ids : SelEnabled]
    /\ sel_out = None

SelCall ==
    /\ sel_in # None /\ sel_out = None
    /\ sel_out' = Some(
           [items |-> selector_items(rng_next(sel_in.rng), sel_in.tier_id,
                                     sel_in.created_at, sel_in.preferred,
                                     sel_in.incidents, sel_in.enabled_ids),
            chosen |-> choose_deployment_for_request(
                           sel_in.rng, sel_in.tier_id, sel_in.created_at,
                           sel_in.preferred, sel_in.incidents, sel_in.enabled_ids)])
    /\ UNCHANGED <<pipeline_vars, drift_vars, qual_vars, eff_vars, agg_vars, inc_vars, sel_in, react_vars>>

SelNext == SelCall

SpecSel == SelInit /\ [][SelNext]_vars

-----------------------------------------------------------------------------
(* Properties of the routing selector *)

SelItems == Val(sel_out).items
SelAware == ~ignores_incidents(rng_next(sel_in.rng))

\* C13: in both paths of the selector every candidate of the preferred list
\* gets a weight of at least 0.01, a disabled candidate and one under the
\* largest incident, TTFT and decode penalties included.
C13_EveryCandidateKeepsWeight ==
    sel_out # None =>
        /\ Len(SelItems) = Len(sel_in.preferred)
        /\ \A i \in 1..Len(SelItems) :
              /\ SelItems[i][1] = sel_in.preferred[i]
              /\ 100 * SelItems[i][2] >= MultScale

\* the incident-aware path with a disabled candidate under the largest
\* incident penalty and both extra penalties, whose product is below 0.01
C13_Witness ==
    /\ sel_out # None
    /\ SelAware
    /\ \E i \in 1..Len(SelItems) :
          LET dep == sel_in.preferred[i]
              eff == incident_effects_for_request(sel_in.created_at, dep, ModelOf(dep),
                                                  BackendOf(dep), sel_in.incidents)
          IN  /\ dep \notin sel_in.enabled_ids
              /\ 3 * pressure_of(eff) >= 85
              /\ eff.ttft_mult >= 135000
              /\ eff.decode_mult <= 85000
              /\ 100 * SelItems[i][2] = MultScale

-----------------------------------------------------------------------------
(* Properties of the generated requests *)

\* every request generated so far in the running call: stored or still batched
GeneratedRequests ==
    IF db = None THEN {}
    ELSE {db.requests[k] : k \in 1..Len(db.requests)} \cup {batch[k] : k \in 1..Len(batch)}

\* C14: every generated request has an integer latency_ms >= 30, within
\* 1200..4000 for a timeout, an integer ttft_ms >= 20 and a decode throughput
\* >= 5.0 tokens per second.
C14_LatenciesAreClamped ==
    \A req \in GeneratedRequests :
        /\ req.latency_ms \in Nat /\ req.latency_ms >= 30
        /\ req.status = "timeout" => req.latency_ms \in 1200..4000
        /\ req.ttft_ms \in Nat /\ req.ttft_ms >= 20
        /\ req.decode_toks_per_sec >= 5 * PerMille

\* a run that has generated a timeout, a request whose TTFT draw fell below
\* 20 ms and a request whose decode draw fell below 5.0
C14_Witness ==
    /\ \E req \in GeneratedRequests : req.status = "timeout"
    /\ \E req \in GeneratedRequests : req.ttft_ms = 20
    /\ \E req \in GeneratedRequests : req.decode_toks_per_sec = 5 * PerMille

-----------------------------------------------------------------------------
(* Properties of the snapshot rates *)

\* 1.0 in millionths
UnitRate == 10^6

\* C15: in every snapshot row error_rate and timeout_rate lie in [0, 1] and
\* error_rate + timeout_rate <= 1; a deployment with zero samples in the
\* window has both rates 0.
C15_RatesWithinUnit ==
    \A row \in AggRows :
        /\ row.error_rate \in 0..UnitRate
        /\ row.timeout_rate \in 0..UnitRate
        /\ row.error_rate + row.timeout_rate <= UnitRate
        /\ row.sample_count = 0 => (row.error_rate = 0 /\ row.timeout_rate = 0)

-----------------------------------------------------------------------------
(* Properties of the snapshot percentiles *)

Successes(dep) == WithStatus(dep, "success")

\* the value of rank floor(q x (n - 1)) among the n values F(k), k in S: the
\* value with at most that many values below it and more than that many values
\* not above it
RankValue(S, F(_), q) ==
    LET idx == (q * (Cardinality(S) - 1)) \div 100
    IN  CHOOSE v \in {F(k) : k \in S} :
            /\ Cardinality({k \in S : F(k) < v}) <= idx
            /\ Cardinality({k \in S : F(k) <= v}) > idx

LatencyOf(k) == agg_in.requests[k].latency_ms
TtftOf(k) == agg_in.requests[k].ttft_ms
DecodeOf(k) == agg_in.requests[k].decode_toks_per_sec

\* p50 and p95 are the values of rank among the successes S, and in order
RankSelected(p50, p95, S, F(_)) ==
    IF S = {} THEN IsNone(p50) /\ IsNone(p95)
    ELSE /\ p50 = Some(RankValue(S, F, 50))
         /\ p95 = Some(RankValue(S, F, 95))
         /\ Val(p50) <= Val(p95)

-----------------------------------------------------------------------------
(* Properties of the request ids *)

\* the number a list of decimal digits denotes
RECURSIVE DigitsValue(_)
DigitsValue(d) ==
    IF d = <<>> THEN 0 ELSE 10 * DigitsValue(SubSeq(d, 1, Len(d) - 1)) + d[Len(d)]

\* id is 'req_' + user id + '_' + k written with at least six decimal digits
IsIdOf(id, user_id, k) ==
    /\ Len(id) = 3 /\ id[1] = "req" /\ id[2] = user_id
    /\ Len(id[3]) >= 6
    /\ \A i \in 1..Len(id[3]) : id[3][i] \in 0..9
    /\ DigitsValue(id[3]) = k
    /\ Len(id[3]) > 6 => id[3][1] # 0

\* the rows of one user in the requests table, in stored order
RequestsOf(u) == SelectSeq(db.requests, LAMBDA req : req.user_id = u)

\* how many rows of the same user precede row k of the requests table
Occurrence(k) ==
    Cardinality({i \in 1..(k - 1) : db.requests[i].user_id = db.requests[k].user_id})

\* C17: for every seed, timestamp and draw, the id of a request is 'req_' +
\* user id + '_' + its zero-padded occurrence index for that user, and no two
\* requests share an id.
C17_IdsFromUserAndIndex ==
    db # None =>
        /\ \A u \in {db.requests[k].user_id : k \in 1..Len(db.requests)} :
              \E mine \in {RequestsOf(u)} :
                  \A i \in 1..Len(mine) : IsIdOf(mine[i].id, u, i - 1)
        /\ Distinct([k \in 1..Len(db.requests) |-> db.requests[k].id])

\* a store seeded from a seed other than the first, holding for one user two
\* requests with distinct timestamps and for another user the same index
C17_Witness ==
    /\ pc = "done" /\ cfg.rng_seed = NumSeeds - 1
    /\ \E k1, k2, k3 \in 1..Len(db.requests) :
          /\ db.requests[k1].user_id = db.requests[k2].user_id
          /\ db.requests[k1].created_at # db.requests[k2].created_at
          /\ Occurrence(k1) = 0 /\ Occurrence(k2) = MaxPerDay * MaxDays - 1
          /\ db.requests[k3].user_id # db.requests[k2].user_id
          /\ Occurrence(k3) = Occurrence(k2)

-----------------------------------------------------------------------------
(* Properties of the quality scores *)

\* every quality score produced so far in the running call
GeneratedScores ==
    IF db = None THEN {}
    ELSE {db.quality_scores[k] : k \in 1..Len(db.quality_scores)}
         \cup {q_batch[k] : k \in 1..Len(q_batch)}

RequestOf(q) == CHOOSE req \in GeneratedRequests : req.id = q.request_id

\* C18: the evaluated_at of every quality score is at or after the created_at
\* of its request and at most one hour after the reference now.
C18_EvaluatedWithinBounds ==
    \E reqs \in {GeneratedRequests} :
        \A q \in GeneratedScores :
            /\ \E req \in reqs : req.id = q.request_id
            /\ \A req \in reqs : req.id = q.request_id => q.evaluated_at >= req.created_at
            /\ parse_rfc3339_z(q.evaluated_at) <= cfg.base_now + Hour

\* a score whose delay would have ended more than an hour after the reference
\* now and was replaced, next to a score evaluated before the reference now
C18_Witness ==
    /\ \E q \in GeneratedScores :
          /\ parse_rfc3339_z(q.evaluated_at) > cfg.base_now
          /\ parse_rfc3339_z(RequestOf(q).created_at) + 7 * Hour > cfg.base_now + Hour
    /\ \E q \in GeneratedScores :
          /\ parse_rfc3339_z(q.evaluated_at) < cfg.base_now
          /\ q.evaluated_at > RequestOf(q).created_at

-----------------------------------------------------------------------------
(* Properties of a failing seed() *)

StoredRows(store) ==
    Len(store.deployments) + Len(store.users) + Len(store.incidents)
    + Len(store.requests) + Len(store.quality_scores)
    + Len(store.deployment_state_current)

\* C19: a failure at any step of seed() ends the call, which takes no further
\* step, and leaves no seeded row in the store; the rows are committed only
\* by the commit that follows the insert of the snapshot, so a committed
\* store is a complete one.
C19_FailureCommitsNothing ==
    /\ [][pc # "failed"]_vars
    /\ [](pc = "failed" => (~db.committed /\ StoredRows(db) = 0))
    /\ []((db # None /\ db.committed) =>
             /\ pc = "done"
             /\ db.deployment_state_current # <<>>
             /\ Len(db.requests) = Generated(cfg))

\* a call with batches of one request that failed after all requests of the
\* first user had been inserted: the store holds no row
C19_Witness ==
    /\ pc = "failed"
    /\ cfg.insert_batch_size = 1
    /\ gen.user > 1
    /\ StoredRows(db) = 0 /\ ~db.committed

-----------------------------------------------------------------------------
(* The two-node ReAct graph: plan -> execute -> plan *)

\* the largest max_steps given to build_react_graph or to the state
MaxStepsCap == 3

\* names the LLM asks for: two tools of the registry and a name it lacks
RegistryTools == {"get_active_incidents", "get_deployment_status"}
UnknownTool == "no_such_tool"

SystemMessage == [type |-> "system", tool_calls |-> <<>>, content |-> <<"prompt">>]
HumanMessage(q) == [type |-> "human", tool_calls |-> <<>>, content |-> <<q>>]
AIMessage(content, calls) == [type |-> "ai", tool_calls |-> calls, content |-> content]
ToolMessage(content, id) == [type |-> "tool", tool_calls |-> <<>>, content |-> <<content, id>>]

\* a text is a list of words and blanks; str.strip() drops the blanks at both ends
RECURSIVE lstrip(_)
lstrip(text) == IF text # <<>> /\ Head(text) = " " THEN lstrip(Tail(text)) ELSE text

RECURSIVE rstrip(_)
rstrip(text) ==
    IF text # <<>> /\ text[Len(text)] = " " THEN rstrip(SubSeq(text, 1, Len(text) - 1))
    ELSE text

strip(text) == rstrip(lstrip(text))

\* what llm_with_tools.invoke may return: an answer, a blank or empty answer,
\* one tool call, or two tool calls of which one names an unknown tool
LlmReplies ==
    {AIMessage(<<" ", "ok", " ">>, <<>>),
     AIMessage(<<" ">>, <<>>),
     AIMessage(<<>>, <<[id |-> "tc1", name |-> "get_active_incidents"]>>),
     AIMessage(<<"let", " ", "me", " ", "check">>,
               <<[id |-> "tc1", name |-> UnknownTool],
                 [id |-> "tc2", name |-> "get_deployment_status"]>>)}

\* state.get(key) or default, for a key holding an integer
get_or(field, default) == IF IsNone(field) \/ Val(field) = 0 THEN default ELSE Val(field)

\* the response of the hard stop
MaxStepsResponse(cap, used) == <<"Max steps reached", cap, used>>

\* the test of the hard stop read as "the cap has been passed"
cap_passed(step, cap) == step > cap

\* if step >= cap
cap_reached(step, cap) == step >= cap

\* _route_after_plan
route_after_plan(state) ==
    IF ~IsNone(state.response) /\ Val(state.response) # <<>> THEN "end"
    ELSE IF state.messages # <<>> /\ state.messages[Len(state.messages)].tool_calls # <<>>
    THEN "execute"
    ELSE "end"

\* the loop of _execute over the tool calls of the last message
RECURSIVE run_tool_calls(_, _)
run_tool_calls(acc, calls) ==
    IF calls = <<>> THEN acc
    ELSE LET tc == Head(calls)
         IN  IF tc.name \notin RegistryTools
             THEN run_tool_calls(
                      [acc EXCEPT !.messages = Append(@, ToolMessage("unknown_tool", tc.id))],
                      Tail(calls))
             ELSE run_tool_calls(
                      [acc EXCEPT !.messages = Append(@, ToolMessage(tc.name, tc.id)),
                                  !.tool_results = @ \cup {tc.name},
                                  !.tools_used = Append(@, tc.name),
                                  !.tool_calls = Append(@, tc.name)],
                      Tail(calls))

\* app.invoke({"query": .., "db_path": ..}) or with a max_steps in the state,
\* on a graph built with max_steps
ReactInit ==
    /\ PipelineIdle
    /\ EffIdle /\ AggIdle /\ IncIdle /\ SelIdle /\ QualIdle /\ DriftIdle
    /\ react_in \in [max_steps : 0..MaxStepsCap,
                     state_max_steps : {None} \cup {Some(m) : m \in 0..MaxStepsCap}]
    /\ react_state = [query |-> "q", step |-> None, max_steps |-> react_in.state_max_steps,
                      messages |-> <<>>, tool_results |-> {}, tools_used |-> <<>>,
                      tool_calls |-> <<>>, response |-> None]
    /\ react_node = "plan"
    /\ llm_calls = 0 /\ exec_rounds = 0

\* the node _plan and the conditional edge that follows it
Plan ==
    /\ react_node = "plan"
    /\ LET step == get_or(react_state.step, 0)
           cap == get_or(react_state.max_steps, react_in.max_steps)
           msgs == IF react_state.messages = <<>>
                   THEN <<SystemMessage, HumanMessage(react_state.query)>>
                   ELSE react_state.messages
       IN  IF cap_reached(step, cap)
           THEN /\ react_state' =
                       [react_state EXCEPT
                           !.messages = msgs,
                           !.response = Some(MaxStepsResponse(cap, react_state.tools_used)),
                           !.step = Some(step),
                           !.max_steps = Some(cap)]
                /\ UNCHANGED llm_calls
           ELSE \E ai \in LlmReplies :
                    /\ llm_calls' = llm_calls + 1
                    /\ react_state' =
                           IF ai.tool_calls # <<>>
                           THEN [react_state EXCEPT !.messages = Append(msgs, ai),
                                                    !.step = Some(step),
                                                    !.max_steps = Some(cap)]
                           ELSE [react_state EXCEPT !.messages = Append(msgs, ai),
                                                    !.response = Some(strip(ai.content)),
                                                    !.step = Some(step),
                                                    !.max_steps = Some(cap)]
    /\ react_node' = route_after_plan(react_state')
    /\ UNCHANGED <<pipeline_vars, drift_vars, qual_vars, eff_vars, agg_vars, inc_vars, sel_vars, react_in,
                   exec_rounds>>

\* the node _execute and the edge back to plan
Execute ==
    /\ react_node = "execute"
    /\ LET msgs == react_state.messages
       IN  IF msgs = <<>> \/ msgs[Len(msgs)].tool_calls = <<>>
           THEN UNCHANGED <<react_state, exec_rounds>>
           ELSE /\ react_state' =
                       [run_tool_calls(react_state, msgs[Len(msgs)].tool_calls)
                           EXCEPT !.step = Some(get_or(react_state.step, 0) + 1)]
                /\ exec_rounds' = exec_rounds + 1
    /\ react_node' = "plan"
    /\ UNCHANGED <<pipeline_vars, drift_vars, qual_vars, eff_vars, agg_vars, inc_vars, sel_vars, react_in,
                   llm_calls>>

ReactNext == Plan \/ Execute

\* the graph runtime runs the next node as long as there is one
SpecReact == ReactInit /\ [][ReactNext]_vars /\ WF_vars(ReactNext)

-----------------------------------------------------------------------------
(* Properties of the ReAct graph *)

\* the max_steps in force: that of the state when it is given and not 0,
\* otherwise that of build_react_graph
ReactCap ==
    IF ~IsNone(react_in.state_max_steps) /\ Val(react_in.state_max_steps) # 0
    THEN Val(react_in.state_max_steps) ELSE react_in.max_steps

ReactEnded == react_node = "end"

IsMaxStepsResponse(r) == Len(r) = 3 /\ r[1] = "Max steps reached" /\ r[2] = ReactCap

-----------------------------------------------------------------------------
(* Properties of the snapshot of a seeded store *)

SeededStore == db # None /\ pc \in {"commit", "done"}

\* C21: in every seeded store the deployment targeted by the incident with
\* status active has status down in deployment_state_current.
C21_ActiveTargetIsDown ==
    SeededStore =>
        \A i \in 1..Len(db.incidents) :
            (db.incidents[i].status = "active" /\ db.incidents[i].target_type = "deployment") =>
                \A k \in 1..Len(db.deployment_state_current) :
                    db.deployment_state_current[k].deployment_id = db.incidents[i].target_id
                        => db.deployment_state_current[k].status = "down"

-----------------------------------------------------------------------------
(* Properties of the drift schedule inside seed() *)

ScheduleBuilt == perf_schedule # <<>>

-----------------------------------------------------------------------------
(* Properties of the request timestamps inside seed() *)

HasRequest == db # None /\ (batch # <<>> \/ db.requests # <<>>)

\* the request generated last in the running call
LastRequest == IF batch # <<>> THEN batch[Len(batch)] ELSE db.requests[Len(db.requests)]

\* C28: for a window of at least one day every request timestamp lies in
\* [window_start, window_end], occurrence j of a user is created in the j-th
\* of the user's equal slices of the window, and within one user the
\* timestamps are non-decreasing in the occurrence index.
C28_TimestampsInSlices ==
    /\ [](( cfg # None /\ cfg.days >= 1 /\ HasRequest /\ gen.frame # None) =>
            \E req \in {LastRequest} :
            \E created \in {Val(gen.frame).created_at_dt} :
            \E j \in {DigitsValue(req.id[3])} :
                /\ req.created_at = to_rfc3339_z(created)
                /\ parse_rfc3339_z(req.created_at) >= window_start_of(cfg)
                /\ parse_rfc3339_z(req.created_at) <= cfg.base_now
                /\ (created - window_start_of(cfg)) * gen_total(cfg)
                       >= j * (cfg.base_now - window_start_of(cfg))
                /\ (created - window_start_of(cfg)) * gen_total(cfg)
                       <= (j + 1) * (cfg.base_now - window_start_of(cfg)))
    /\ [][(/\ cfg # None /\ cfg.days >= 1 /\ HasRequest /\ HasRequest'
           /\ LastRequest'.id # LastRequest.id
           /\ LastRequest'.user_id = LastRequest.user_id)
          => LastRequest'.created_at >= LastRequest.created_at]_vars

\* a stored log in which a user's later occurrence is later in time and lies
\* in the second slice, while the first request of the next user is earlier
\* than the request before it
C28_Witness ==
    /\ cfg # None /\ cfg.days >= 1 /\ db # None /\ Len(db.requests) >= 3
    /\ \E k \in 1..(Len(db.requests) - 2) :
          /\ db.requests[k].user_id = db.requests[k + 1].user_id
          /\ DigitsValue(db.requests[k + 1].id[3]) = 1
          /\ db.requests[k].created_at < db.requests[k + 1].created_at
          /\ 2 * (parse_rfc3339_z(db.requests[k + 1].created_at) - window_start_of(cfg))
                 >= cfg.base_now - window_start_of(cfg)
          /\ db.requests[k + 2].user_id # db.requests[k + 1].user_id
          /\ db.requests[k + 2].created_at < db.requests[k + 1].created_at

-----------------------------------------------------------------------------
(* Properties of the routing inside seed() *)

TierOf(user_id) == (CHOOSE i \in 1..Len(make_users) : make_users[i].id = user_id)

\* C29: every request of a user is routed to a deployment of the preferred
\* list of the user's tier, whichever path the selector took; the disabled
\* deployment llama-70b/neocloud is in no list, receives no request, and its
\* snapshot row has sample_count 0.
C29_RoutedWithinTierList ==
    /\ (cfg # None /\ HasRequest /\ gen.frame # None) =>
          \E req \in {LastRequest} :
              /\ Val(gen.frame).path \in {"ignore", "aware"}
              /\ req.deployment_id
                     \in SeqRange(tier_preferred_deployments(make_users[TierOf(req.user_id)].tier_id))
              /\ req.deployment_id # DisabledDeployment
    /\ \A tier_id \in {"premium", "standard", "budget"} :
          DisabledDeployment \notin SeqRange(tier_preferred_deployments(tier_id))
    /\ SeededStore =>
          \A k \in 1..Len(db.deployment_state_current) :
              db.deployment_state_current[k].deployment_id = DisabledDeployment
                  => db.deployment_state_current[k].sample_count = 0

\* a seeded store whose generator took both paths and whose snapshot holds the row of the
\* disabled deployment next to a row with samples
C29_Witness ==
    /\ SeededStore /\ pc = "done"
    /\ gen.paths = {"ignore", "aware"}
    /\ db.requests # <<>>
    /\ \E k \in 1..Len(db.deployment_state_current) :
          /\ db.deployment_state_current[k].deployment_id = DisabledDeployment
          /\ db.deployment_state_current[k].sample_count = 0
    /\ \E k \in 1..Len(db.deployment_state_current) :
          db.deployment_state_current[k].sample_count > 0

-----------------------------------------------------------------------------
(* Direct passes of one request through generation and quality sampling *)

\* the window of the probe and the incidents built for it
QualWindowStart == BaseNow - MaxDays * Day

QualIncidents(seed) == make_incidents(rng_next(rng_seeded(seed)), QualWindowStart, BaseNow)

\* created_at_dt of the probe: the instants around the start and the end of
\* every scripted incident, half a second apart
QualTimes ==
    UNION {{parse_rfc3339_z(inc.started_at) + d : d \in -1..1}
           \cup (IF inc.resolved_at = None THEN {}
                 ELSE {parse_rfc3339_z(Val(inc.resolved_at)) + d : d \in -1..2})
           : inc \in {QualIncidents(0)[i] : i \in 1..Len(QualIncidents(0))}}

QualTargets == {DepId("gpt-4", "k8s"), DepId("gpt-4", "aws"), DepId("llama-70b", "k8s")}

\* an open incident on the k8s backend whose title holds the rate-limit and
\* the 5xx keywords: +0.15 error and +0.08 timeout each time it is listed
StormIncident ==
    [id |-> 0, target_type |-> "backend", target_id |-> "k8s",
     title |-> "Rate limit storm with 5xx", status |-> "active",
     started_at |-> 0, resolved_at |-> None]

\* how many times the storm is listed behind the built incidents
QualStorms == {0, 7}

\* rolls, per mille, on both sides of the band edges that occur
QualRolls == {9, 10, 29, 30, 79, 80, 589, 590, 999}

QualInit ==
    /\ PipelineIdle
    /\ EffIdle /\ AggIdle /\ IncIdle /\ SelIdle /\ ReactIdle /\ DriftIdle
    /\ qual_in \in [seed : 0..(NumSeeds - 1), created_at_dt : QualTimes,
                    deployment_id : QualTargets, storm : QualStorms, roll : QualRolls]
    /\ qual_out = None

\* the body of the loop of _generate_requests from the effects to the yield,
\* for a request created at created_at_dt and routed to deployment_id whose
\* status roll is roll, and the call of _make_quality_row for it
QualCall ==
    /\ qual_in # None /\ qual_out = None
    /\ \E incs \in {QualIncidents(qual_in.seed)
                     \o [i \in 1..qual_in.storm |-> StormIncident]} :
       \E eff \in {incident_effects_for_request(
                       qual_in.created_at_dt, qual_in.deployment_id,
                       ModelOf(qual_in.deployment_id), BackendOf(qual_in.deployment_id), incs)} :
       \E req \in {[id |-> request_id(make_users[1].id, 0),
                    created_at |-> to_rfc3339_z(qual_in.created_at_dt),
                    status |-> status_of_roll(
                                   qual_in.roll,
                                   effective_rate(base_timeout_of(qual_in.deployment_id),
                                                  eff.timeout_add),
                                   effective_rate(base_error_of(qual_in.deployment_id),
                                                  eff.error_add)),
                    deployment_id |-> qual_in.deployment_id,
                    model_id |-> ModelOf(qual_in.deployment_id),
                    backend_id |-> BackendOf(qual_in.deployment_id)]} :
       \E qr \in {make_quality_row(rng_seeded(qual_in.seed), req, BaseNow, incs)} :
          qual_out' = Some([eff |-> eff, req |-> req, q |-> qr.q,
                            in_incident |-> qr.in_incident])
    /\ UNCHANGED <<pipeline_vars, drift_vars, qual_in, eff_vars, agg_vars, inc_vars, sel_vars, react_vars>>

QualNext == QualCall

SpecQual == QualInit /\ [][QualNext]_vars

\* C23: a quality score is drawn from the lower-scoring distribution exactly
\* when the pressure that was applied to its request at generation was
\* nonzero: the sampler's pressure agrees with the generator's.
C23_SamplerAgreesWithGenerator ==
    qual_out # None =>
        (Val(qual_out).in_incident <=> pressure_of(Val(qual_out).eff) > 0)

-----------------------------------------------------------------------------
(* Direct runs of the loop over days of the drift schedule *)

MaxDriftDays == 3

\* a deployment of the lookup table and the one with the fixed baseline
DriftTargets == {DepId("gpt-4", "k8s"), DisabledDeployment}

\* streams whose next draws are five sigma below or above the mean, with and
\* without the step change, or near the mean
DriftStreams == {0, 33, 56, 58, 161, 1150, 1466, 2413, 3842, 4981, 19219}

DriftInit ==
    /\ PipelineIdle
    /\ EffIdle /\ AggIdle /\ IncIdle /\ SelIdle /\ ReactIdle /\ QualIdle
    /\ drift_in \in [dep_id : DriftTargets, days : 0..MaxDriftDays]
    /\ drift_out = [st |-> [rng |-> rng_seeded(0), ttft_mult |-> MultScale,
                            decode_mult |-> MultScale],
                    day |-> 0, sched |-> <<>>]

\* one pass of "for day in range(days)": the draws of the day are those of
\* any stream
DriftDay ==
    /\ drift_in # None
    /\ drift_out.day < Max(drift_in.days, 1)
    /\ \E s \in DriftStreams :
       \E st1 \in {drift_day([drift_out.st EXCEPT !.rng.s = s])} :
          drift_out' = [st |-> st1, day |-> drift_out.day + 1,
                        sched |-> Append(drift_out.sched,
                                         schedule_entry(drift_in.dep_id, st1, drift_out.day))]
    /\ UNCHANGED <<pipeline_vars, drift_in, qual_vars, eff_vars, agg_vars, inc_vars, sel_vars, react_vars>>

DriftNext == DriftDay

SpecDrift == DriftInit /\ [][DriftNext]_vars

\* C27: whatever the days and the draws, every entry of the schedule has its
\* TTFT multiplier in [0.6, 1.8] and its decode multiplier in [0.5, 1.8], an
\* effective TTFT above zero and an effective decode throughput >= 0.1.
C27_MultipliersStayInBands ==
    drift_in # None =>
        \A i \in 1..Len(drift_out.sched) :
            /\ drift_out.sched[i].ttft_mult >= 60000 /\ drift_out.sched[i].ttft_mult <= 180000
            /\ drift_out.sched[i].decode_mult >= 50000 /\ drift_out.sched[i].decode_mult <= 180000
            /\ drift_out.sched[i].ttft_ms > 0
            /\ drift_out.sched[i].decode_tps >= 100

\* three days of draws five sigma low with the step change every day: the
\* first day ends on the lower edges, later days stay inside the bands, and
\* the fixed baseline of 0.1 tokens per second is held at 0.1
C27_Witness ==
    /\ drift_in # None /\ drift_in.dep_id = DisabledDeployment
    /\ Len(drift_out.sched) = 3
    /\ drift_out.sched[1].ttft_mult = 60000 /\ drift_out.sched[1].decode_mult = 50000
    /\ drift_out.sched[3].ttft_mult <= 70000
    /\ drift_out.sched[3].decode_tps = 100

\* the effective probabilities of the claim, in percent: the baseline of the
\* deployment plus the increment, held within [0, 0.95]
TimeoutP == Min(95, Max(0, (IF qual_in.deployment_id = DepId("gpt-4", "k8s") THEN 3 ELSE 1)
                           + Val(qual_out).eff.timeout_add))

ErrorP == Min(95, Max(0, (IF qual_in.deployment_id = DepId("gpt-4", "k8s") THEN 5 ELSE 2)
                         + Val(qual_out).eff.error_add))

\* C30: the status of a request comes from one roll against the effective
\* probabilities, each the baseline plus the incident increment clamped to
\* [0, 0.95]: timeout if roll < timeout_p, error if timeout_p <= roll <
\* timeout_p + error_p, success otherwise; timeout takes precedence.
C30_StatusFromOneRoll ==
    qual_out # None =>
        /\ Val(qual_out).req.status \in {"timeout", "error", "success"}
        /\ Val(qual_out).req.status = "timeout" <=> qual_in.roll < TimeoutP * 10
        /\ Val(qual_out).req.status = "error" <=>
               (TimeoutP * 10 <= qual_in.roll /\ qual_in.roll < (TimeoutP + ErrorP) * 10)
        /\ Val(qual_out).req.status = "success" <=> qual_in.roll >= (TimeoutP + ErrorP) * 10

\* under the storm the error probability is held at 0.95 and the two bands
\* cover every roll: a roll below both probabilities is a timeout, the last
\* roll an error
C30_Witness ==
    /\ qual_out # None
    /\ qual_in.storm = 7 /\ qual_in.deployment_id = DepId("gpt-4", "k8s")
    /\ Val(qual_out).eff.error_add > 95 /\ ErrorP = 95
    /\ \/ qual_in.roll = 589 /\ Val(qual_out).req.status = "timeout"
       \/ qual_in.roll = 999 /\ Val(qual_out).req.status = "error"

====
